---- MODULE Spec2Model ----
(***************************************************************************)
(* Verification model of packages/core/src/server.ts (padloc).             *)
(*                                                                         *)
(* Two groups of state are modelled, each with its own specification:      *)
(*                                                                         *)
(*   Spec / SpecLive  the request pipeline of Server.handle: authenticate, *)
(*                    the per-id write-serialization queue (_addToQueue),  *)
(*                    Controller.process and done(), with the Account and  *)
(*                    Org records the dispatched handlers read and write.  *)
(*   SpecAuth         the auth-request state machine on one Auth record:   *)
(*                    startAuthRequest, completeAuthRequest and the        *)
(*                    operations that redeem a token with _useAuthToken.   *)
(*                                                                         *)
(* The storage facade is a value store: get returns a copy of the saved    *)
(* record, save replaces the stored record by the copy it is given.        *)
(***************************************************************************)
EXTENDS Integers, Sequences, FiniteSets, TLC

\* ------------------------------------------------------------------ bounds

\* Number of requests handled concurrently by one Server.
MaxReq == 3

\* ---------------------------------------------------------------- universe

AccountIds == {"a1", "a2"}
OrgIds == {"o1", "o2"}
Ids == AccountIds \cup OrgIds
Names == {"n1", "n2"}
Reqs == 1..MaxReq
Methods == {"updateAccount", "getAccount", "unknownMethod"}

\* Values of Request.auth: no auth header, a session id that storage does not
\* hold, or a valid signed header of a session of the given account.
NoAuth == "none"
BadSession == "invalid"
AuthHeaders == {NoAuth, BadSession} \cup AccountIds

\* The revision every account carries in the initial state.
InitRevision == 0

\* Context.account of a request that carries no auth header.
Anonymous == [id |-> "", revision |-> 0, name |-> "", orgs |-> <<>>]

NoRequest == [auth |-> NoAuth, method |-> "getAccount", revision |-> 0, name |-> "n1"]

VARIABLES
    accounts,      \* storage, kind Account: id -> [id, revision, name, orgs]
    orgs,          \* storage, kind Org: id -> [revision, members, ...]
    nextRev,       \* the next value uuid() returns for a revision
    requestQueue,  \* Server._requestQueue: id -> 0 (no entry) or the request whose promise is mapped
    resolved,      \* request -> whether the promises it registered are resolved
    pc,            \* request -> position in Server.handle
    req,           \* request -> the Request being handled
    ctx,           \* request -> Context.account (Anonymous when there is none)
    promises,      \* request -> the promises collected by _addToQueue (by registering request)
    locks,         \* request -> the ids for which it registered a promise
    res,           \* request -> "" , "ok" or the error code of the Response
    earlier,       \* history: request -> the requests registered before it for one of its ids
    storedAtCall,  \* history: request -> stored revision of its account when process ran
    lastWrites,    \* history: the Account/Org saves of the last step, [req, id, site]
    auth,          \* storage, kind Auth: the persisted record of one email
    nextId,        \* the number of auth requests created so far (ids and tokens are fresh)
    redeemed,      \* history: the tokens redeemed by an operation that returned successfully
    authCall,      \* history: the last operation on the Auth record and its outcome
    nextSrp,       \* the number of SRP handshakes started so far (their ids are fresh)
    sessions,      \* storage, kind Session: id -> [id, expires, lastUsed, key]
    now,           \* the clock: what Date.now() and new Date() return
    authReq,       \* request -> Request.auth with the method and parameter of the Request
    ctxSession,    \* request -> Context.session and Context.auth
    age,           \* history: request -> the age authenticate computed for it
    orgCall,       \* history: the last org or vault call and its outcome
    vaults         \* storage, kind Vault: id -> [id, owner, org, revision, data]

pipeVars == <<accounts, orgs, nextRev, requestQueue, resolved, pc, req, ctx,
              promises, locks, res, earlier, storedAtCall, lastWrites>>
authVars == <<auth, nextId, redeemed, authCall, nextSrp>>
sessVars == <<sessions, now, authReq, ctxSession, age>>
orgVars == <<orgCall, vaults>>
vars == <<pipeVars, authVars, sessVars, orgVars>>

\* ------------------------------------------------------------ the Auth record

\* Cap on AuthRequest.tries (the code counts without limit).
MaxTries == 2

\* Number of auth requests started on the Auth record.
MaxAuthRequests == 1

\* Number of pending SRP handshakes kept on the Auth record.
MaxSrpSessions == 2

Devices == {"d1", "d2"}
Purposes == {"Login", "Signup", "Recover", "GetLegacyData", "AccessKeyStore", "TestAuthenticator"}

\* _createAdHocAuthenticator for the default auth type (Email): always there,
\* active, usable for the four purposes _getAuthenticators lists.
AdHocAuthenticator ==
    [id |-> "ad_hoc", type |-> "email", status |-> "active",
     purposes |-> {"Signup", "Login", "Recover", "GetLegacyData"}]

\* An authenticator the account has registered (startRegisterAuthenticator and
\* completeRegisterAuthenticator), usable to open the key store.
RegisteredAuthenticator ==
    [id |-> "m1", type |-> "totp", status |-> "active",
     purposes |-> {"Login", "AccessKeyStore"}]

\* new Auth(email): what _getAuth returns for an email storage does not know.
NewAuth ==
    [account |-> FALSE, authenticators |-> <<>>, mfaOrder |-> <<>>,
     authRequests |-> <<>>, srpSessions |-> {}, trustedDevices |-> {},
     sessions |-> <<>>]

NoAuthRequest ==
    [id |-> 0, token |-> 0, type |-> "", purpose |-> "", status |-> "",
     tries |-> 0, authenticatorId |-> ""]

\* What an operation returns of a handshake or a session: its id and, if it
\* carries one, its key; NoReturn when it returns neither.
NoReturn == [id |-> 0, key |-> ""]

NoCall ==
    [op |-> "none", res |-> "", token |-> 0, id |-> 0, verify |-> "", before |-> NoAuthRequest,
     device |-> "", given |-> 0, account |-> TRUE, proof |-> TRUE,
     returned |-> NoReturn]

\* The operations that redeem a token through _useAuthToken.
RedeemOps == {"initAuth", "createAccount", "recoverAccount", "getLegacyData", "getKeyStoreEntry"}

\* ----------------------------------------------------------------- sessions

\* ServerConfig.maxRequestAge, in milliseconds.
maxRequestAge == 60 * 60 * 1000

\* The clock reading of the initial state.
Epoch == 2 * maxRequestAge

\* The ids of the sessions storage holds.
SessionIds == {"s1", "s2", "s3"}

\* A session id storage does not hold.
UnknownSession == "s0"

\* Session.info of a session, as Auth.sessions holds it.
SessionInfo(session) == [id |-> session.id, lastUsed |-> session.lastUsed]

\* A stored session; key is the key negotiated in createSession.
StoredSession(id, expires, lastUsed) ==
    [id |-> id, expires |-> expires, lastUsed |-> lastUsed, key |-> "K"]

\* Request.auth and the Request of a call that has not arrived yet.
NoAuthHeader == [session |-> "", signed |-> FALSE, time |-> 0, method |-> "", param |-> ""]

\* Context.session and Context.auth of a context without session.
NoSession == [session |-> [id |-> "", lastUsed |-> 0], auth |-> NewAuth]

\* Storage of kind Session without any session.
NoSessions == [s \in {} |-> NoSession.session]

\* ------------------------------------------------------------------- orgs

\* OrgRole
OrgRoles == {"Owner", "Admin", "Member", "Suspended"}

\* An org id storage does not hold.
UnknownOrg == "o0"

\* The ids of the invites an org can hold.
InviteIds == {"i1"}

\* No vault is stored.
NoVaults == [v \in {} |-> 0]

\* No updateOrg call has been made.
NoOrgCall == [op |-> "none", account |-> "", org |-> "", res |-> ""]

\* ------------------------------------------------------------ storage helpers

\* acc.orgs.filter((o) => o.id !== org.id)
WithoutOrg(orgList, o) ==
    LET Keep(x) == x # o IN SelectSeq(orgList, Keep)

\* The duplicate-free sequences over a set of org ids (the orders an account's
\* orgs list can have).
OrgListsOf(S) ==
    {s \in UNION {[1..n -> S] : n \in 0..Cardinality(S)} :
        /\ Len(s) = Cardinality(S)
        /\ \A i, j \in 1..Len(s) : i # j => s[i] # s[j]}

\* A handler's working state: the stores it reads and writes, the uuid counter,
\* and the saves it has made.
Store(acs, ogs, rev, ws) == [accounts |-> acs, orgs |-> ogs, nextRev |-> rev, writes |-> ws]

\* Server.updateMetaData(org): a new org revision; every member account gets
\* exactly one orgs entry for the org, appended at the end, and is saved; each
\* member's name is refreshed from its account. The caller saves the org.
updateMetaData(o, org, st) ==
    LET ms == DOMAIN org.members
        acs == [a \in AccountIds |->
                   IF a \in ms
                   THEN [st.accounts[a] EXCEPT !.orgs = Append(WithoutOrg(@, o), o)]
                   ELSE st.accounts[a]]
        org2 == [org EXCEPT !.revision = st.nextRev,
                            !.members = [m \in ms |-> st.accounts[m].name]]
    IN [org |-> org2,
        st |-> Store(acs, st.orgs, st.nextRev + 1,
                     st.writes \cup {[id |-> m, site |-> "updateMetaData"] : m \in ms})]

\* The loop of updateAccount over account.orgs after a name change: get the org,
\* rename the member, updateMetaData, save the org. getMember(account)! on an org
\* that does not list the account throws (a TypeError, reported SERVER_ERROR).
RECURSIVE RenameInOrgs(_, _, _, _)
RenameInOrgs(orgList, a, name, st) ==
    IF orgList = <<>> THEN [err |-> "", st |-> st]
    ELSE LET o == Head(orgList)
             org == st.orgs[o]
         IN IF a \notin DOMAIN org.members
            THEN [err |-> "SERVER_ERROR", st |-> st]
            ELSE LET renamed == [org EXCEPT !.members[a] = name]
                     md == updateMetaData(o, renamed, st)
                     saved == Store(md.st.accounts,
                                    [md.st.orgs EXCEPT ![o] = md.org],
                                    md.st.nextRev,
                                    md.st.writes \cup {[id |-> o, site |-> "updateAccount"]})
                 IN RenameInOrgs(Tail(orgList), a, name, saved)

\* ------------------------------------------------------------------ handlers

\* What a handler hands back to process: the response code, the handler's
\* Context.account object and the stores.
Outcome(code, account, st) == [res |-> code, ctx |-> account, st |-> st]

\* Mutant of RevisionMatches: every submitted revision passes.
RevisionMatchesAlways(revision, account) == TRUE

\* The revision check of updateAccount: the submitted revision against the
\* revision of the account object of the request context.
RevisionMatches(revision, account) == revision = account.revision

\* Controller.updateAccount
updateAccount(r, st) ==
    LET account == ctx[r] IN
    IF account.id \notin AccountIds
    THEN Outcome("INVALID_SESSION", account, st)
    ELSE IF ~RevisionMatches(req[r].revision, account)
    THEN Outcome("OUTDATED_REVISION", account, st)
    ELSE LET nameChanged == account.name # req[r].name
             updated == [account EXCEPT !.revision = st.nextRev, !.name = req[r].name]
             saved == Store([st.accounts EXCEPT ![account.id] = updated],
                            st.orgs, st.nextRev + 1,
                            st.writes \cup {[id |-> account.id, site |-> "updateAccount"]})
             renamed == IF nameChanged
                        THEN RenameInOrgs(updated.orgs, account.id, req[r].name, saved)
                        ELSE [err |-> "", st |-> saved]
         IN Outcome(IF renamed.err = "" THEN "ok" ELSE renamed.err, updated, renamed.st)

\* Controller.getAccount
getAccount(r, st) ==
    IF ctx[r].id \notin AccountIds
    THEN Outcome("INVALID_SESSION", ctx[r], st)
    ELSE Outcome("ok", ctx[r], st)

\* Controller.process: the handler of req.method, or INVALID_REQUEST when the
\* method has no handler definition.
process(r, st) ==
    CASE req[r].method = "updateAccount" -> updateAccount(r, st)
      [] req[r].method = "getAccount" -> getAccount(r, st)
      [] OTHER -> Outcome("INVALID_REQUEST", ctx[r], st)

\* --------------------------------------------------------------- the queue

\* for (const { id } of [account, ...account.orgs])
LockIds(account) == <<account.id>> \o account.orgs

\* Mutant of PrevPromise: the entry is read after the request's own promise
\* has been mapped.
PrevPromiseAfterSet(queue, id, r) == r

\* const promise = this._requestQueue.get(id)
PrevPromise(queue, id, r) == queue[id]

\* Mutant of QueueSet: an existing entry is kept.
QueueSetIfAbsent(queue, id, r) == IF queue[id] = 0 THEN [queue EXCEPT ![id] = r] ELSE queue

\* this._requestQueue.set(id, new Promise(...))
QueueSet(queue, id, r) == [queue EXCEPT ![id] = r]

\* The registration loop of _addToQueue, which runs without suspension: for each
\* id, collect the promise mapped so far, then map the request's own.
RECURSIVE AddToQueueLoop(_, _, _, _)
AddToQueueLoop(ids, r, queue, proms) ==
    IF ids = <<>> THEN [queue |-> queue, promises |-> proms]
    ELSE LET id == Head(ids)
             p == PrevPromise(queue, id, r)
         IN AddToQueueLoop(Tail(ids), r, QueueSet(queue, id, r),
                           IF p # 0 THEN proms \cup {p} ELSE proms)

\* Mutant of QueueReady: the collected promises are not awaited.
QueueReadyNoWait(r) == TRUE

\* await Promise.all(promises)
QueueReady(r) == \A p \in promises[r] : resolved[p]

\* Mutant of RunsDone: done() is called after process only when it returned.
RunsDoneOnSuccess(code) == code = "ok"

\* try { process } finally { done() }: done runs whatever the outcome.
RunsDone(code) == TRUE

\* The org memberships of the initial states: two accounts sharing both orgs,
\* sharing one of two, and sharing none.
Memberships ==
    {[o \in OrgIds |-> AccountIds],
     [o \in OrgIds |-> IF o = "o1" THEN AccountIds ELSE {"a1"}],
     [o \in OrgIds |-> IF o = "o1" THEN {"a1"} ELSE {"a2"}]}

\* A request is inside Controller.process: _addToQueue has returned and done()
\* has not been called.
InProcess(r) == pc[r] \in {"inProcess", "finally"}

\* ------------------------------------------------------------------- Init

Init ==
    /\ \E ms \in Memberships :
          /\ orgs = [o \in OrgIds |->
                        [revision |-> InitRevision, members |-> [m \in ms[o] |-> "n1"]]]
          /\ accounts \in [AccountIds -> [id : AccountIds, revision : {InitRevision},
                                          name : {"n1"},
                                          orgs : OrgListsOf(OrgIds) \cup
                                                 UNION {OrgListsOf({o}) : o \in OrgIds} \cup {<<>>}]]
          /\ \A a \in AccountIds :
                /\ accounts[a].id = a
                /\ accounts[a].orgs \in OrgListsOf({o \in OrgIds : a \in ms[o]})
    /\ nextRev = InitRevision + 1
    /\ requestQueue = [i \in Ids |-> 0]
    /\ resolved = [r \in Reqs |-> FALSE]
    /\ pc = [r \in Reqs |-> "new"]
    /\ req = [r \in Reqs |-> NoRequest]
    /\ ctx = [r \in Reqs |-> Anonymous]
    /\ promises = [r \in Reqs |-> {}]
    /\ locks = [r \in Reqs |-> {}]
    /\ res = [r \in Reqs |-> ""]
    /\ earlier = [r \in Reqs |-> {}]
    /\ storedAtCall = [r \in Reqs |-> -1]
    /\ lastWrites = {}
    /\ auth = NewAuth
    /\ nextId = 0
    /\ nextSrp = 0
    /\ redeemed = {}
    /\ authCall = NoCall
    /\ orgCall = NoOrgCall
    /\ vaults = NoVaults
    /\ sessions = NoSessions
    /\ now = Epoch
    /\ authReq = [r \in Reqs |-> NoAuthHeader]
    /\ ctxSession = [r \in Reqs |-> NoSession]
    /\ age = [r \in Reqs |-> 0]

\* ---------------------------------------------------------------- actions

\* The requests Server.handle can be called with: updateAccount with a session
\* of an account, the revision either the account's first one or the one stored
\* now; getAccount with any auth header; a method without handler.
Requests ==
    {[auth |-> h, method |-> "updateAccount", revision |-> rev, name |-> n] :
        h \in AccountIds, rev \in {InitRevision} \cup {accounts[a].revision : a \in AccountIds},
        n \in Names}
    \cup {[NoRequest EXCEPT !.auth = h] : h \in AuthHeaders}
    \cup {[NoRequest EXCEPT !.method = "unknownMethod"]}

\* The requests of the liveness specification: what the queue does depends on
\* the account of the context alone, so these are getAccount with any auth
\* header (which returns for a session and throws without one) and a method
\* without handler sent with a session (which throws while the ids are held).
LiveRequests ==
    {[NoRequest EXCEPT !.auth = h] : h \in AuthHeaders}
    \cup {[NoRequest EXCEPT !.auth = "a1", !.method = "unknownMethod"]}

\* Server.handle is called with a request (requests arrive in the order of
\* their numbers) and runs Controller.authenticate up to the point where the
\* context is populated: no auth header returns at once; a session that storage
\* does not hold fails INVALID_SESSION (Server.handle turns it into an error
\* response); otherwise the account of the session is loaded into the context.
Receive(r, requests) ==
    /\ pc[r] = "new"
    /\ \A q \in Reqs : q < r => pc[q] # "new"
    /\ \E request \in requests :
          /\ request.method = "updateAccount" =>
                request.revision \in {InitRevision, accounts[request.auth].revision}
          /\ req' = [req EXCEPT ![r] = request]
          /\ \/ /\ request.auth = NoAuth
                /\ pc' = [pc EXCEPT ![r] = "authenticated"]
                /\ UNCHANGED <<ctx, res>>
             \/ /\ request.auth = BadSession
                /\ pc' = [pc EXCEPT ![r] = "returned"]
                /\ res' = [res EXCEPT ![r] = "INVALID_SESSION"]
                /\ UNCHANGED ctx
             \/ /\ request.auth \in AccountIds
                /\ ctx' = [ctx EXCEPT ![r] = accounts[request.auth]]
                /\ pc' = [pc EXCEPT ![r] = "authLoaded"]
                /\ UNCHANGED res
    /\ lastWrites' = {}
    /\ UNCHANGED <<accounts, orgs, nextRev, requestQueue, resolved, promises,
                   locks, earlier, storedAtCall, authVars, sessVars, orgVars>>

AuthLoad(r) == Receive(r, Requests)

AuthLoadLive(r) == Receive(r, LiveRequests)

\* The end of Controller.authenticate: the session, the account object of the
\* context and the auth record are saved.
AuthSave(r) ==
    /\ pc[r] = "authLoaded"
    /\ accounts' = [accounts EXCEPT ![ctx[r].id] = ctx[r]]
    /\ lastWrites' = {[req |-> r, id |-> ctx[r].id, site |-> "authenticate"]}
    /\ pc' = [pc EXCEPT ![r] = "authenticated"]
    /\ UNCHANGED <<orgs, nextRev, requestQueue, resolved, req, ctx, promises,
                   locks, res, earlier, storedAtCall, authVars, sessVars, orgVars>>

\* Server._addToQueue up to its await: nothing is registered without an
\* account; otherwise the registration loop runs over the account's id and the
\* ids of its orgs.
AddToQueue(r) ==
    /\ pc[r] = "authenticated"
    /\ IF ctx[r].id \notin AccountIds
       THEN UNCHANGED <<requestQueue, promises, locks, earlier>>
       ELSE LET ids == LockIds(ctx[r])
                out == AddToQueueLoop(ids, r, requestQueue, {})
            IN /\ requestQueue' = out.queue
               /\ promises' = [promises EXCEPT ![r] = out.promises]
               /\ locks' = [locks EXCEPT ![r] = {ids[i] : i \in 1..Len(ids)}]
               /\ earlier' = [earlier EXCEPT
                                  ![r] = {q \in Reqs : locks[q] \cap locks'[r] # {}}]
    /\ pc' = [pc EXCEPT ![r] = "queued"]
    /\ lastWrites' = {}
    /\ UNCHANGED <<accounts, orgs, nextRev, resolved, req, ctx, res, storedAtCall, authVars, sessVars, orgVars>>

\* The await of _addToQueue completes and Server.handle calls process.
Enter(r) ==
    /\ pc[r] = "queued"
    /\ QueueReady(r)
    /\ pc' = [pc EXCEPT ![r] = "inProcess"]
    /\ lastWrites' = {}
    /\ UNCHANGED <<accounts, orgs, nextRev, requestQueue, resolved, req, ctx, promises,
                   locks, res, earlier, storedAtCall, authVars, sessVars, orgVars>>

\* Controller.process runs the handler to its end (a result or a thrown error).
Process(r) ==
    /\ pc[r] = "inProcess"
    /\ LET out == process(r, Store(accounts, orgs, nextRev, {}))
       IN /\ accounts' = out.st.accounts
          /\ orgs' = out.st.orgs
          /\ nextRev' = out.st.nextRev
          /\ ctx' = [ctx EXCEPT ![r] = out.ctx]
          /\ res' = [res EXCEPT ![r] = out.res]
          /\ lastWrites' = {[req |-> r, id |-> w.id, site |-> w.site] : w \in out.st.writes}
    /\ storedAtCall' = [storedAtCall EXCEPT
                           ![r] = IF ctx[r].id \in AccountIds
                                  THEN accounts[ctx[r].id].revision ELSE -1]
    /\ pc' = [pc EXCEPT ![r] = "finally"]
    /\ UNCHANGED <<requestQueue, resolved, req, promises, locks, earlier, authVars, sessVars, orgVars>>

\* The finally block of Server.handle and what follows it without suspension:
\* done() resolves every promise the request registered, then the response is
\* completed (the result, or the error code set by _handleError).
Done(r) ==
    /\ pc[r] = "finally"
    /\ resolved' = [resolved EXCEPT ![r] = RunsDone(res[r]) /\ locks[r] # {}]
    /\ pc' = [pc EXCEPT ![r] = "returned"]
    /\ lastWrites' = {}
    /\ UNCHANGED <<accounts, orgs, nextRev, requestQueue, req, ctx, promises,
                   locks, res, earlier, storedAtCall, authVars, sessVars, orgVars>>

Next ==
    \E r \in Reqs :
        \/ AuthLoad(r)
        \/ AuthSave(r)
        \/ AddToQueue(r)
        \/ Enter(r)
        \/ Process(r)
        \/ Done(r)

Spec == Init /\ [][Next]_vars

\* The scheduler runs every continuation that is ready, and every handler
\* terminates.
NextLive ==
    \E r \in Reqs :
        \/ AuthLoadLive(r)
        \/ AuthSave(r)
        \/ AddToQueue(r)
        \/ Enter(r)
        \/ Process(r)
        \/ Done(r)

Fairness ==
    \A r \in Reqs : WF_vars(AuthSave(r) \/ AddToQueue(r) \/ Enter(r) \/ Process(r) \/ Done(r))

SpecLive == Init /\ [][NextLive]_vars /\ Fairness

\* ================================================= the auth-request machine

\* Array.prototype.indexOf on a list of ids: the position from 0, -1 if absent.
IndexOf(list, x) ==
    IF \E i \in 1..Len(list) : list[i] = x
    THEN (CHOOSE i \in 1..Len(list) : list[i] = x /\ \A j \in 1..(i - 1) : list[j] # x) - 1
    ELSE -1

\* .sort((a, b) => auth.mfaOrder.indexOf(a.id) - auth.mfaOrder.indexOf(b.id)):
\* a stable sort by position in mfaOrder, authenticators not listed first.
RECURSIVE SortFrom(_, _, _)
SortFrom(list, order, k) ==
    IF k > Len(order) - 1 THEN <<>>
    ELSE LET HasKey(a) == IndexOf(order, a.id) = k
         IN SelectSeq(list, HasKey) \o SortFrom(list, order, k + 1)

SortByMfaOrder(list, order) == SortFrom(list, order, -1)

\* _getAuthenticators: the registered authenticators, then the ad hoc ones.
getAuthenticators(a) == a.authenticators \o <<AdHocAuthenticator>>

\* Array.prototype.find, given the elements that satisfy the test in the order
\* of the list: the first of them, NoAuthRequest (for undefined) without one.
FindRequest(hits) == IF hits = <<>> THEN NoAuthRequest ELSE Head(hits)

\* Controller._useAuthToken on the stored record: the first request with the
\* token, status Verified and the purpose (and the authenticator and request
\* id, when given: "" and 0 stand for undefined) is removed and the record is
\* saved; without such a request the call fails AUTHENTICATION_FAILED.
useAuthToken(stored, token, purpose, authenticatorId, requestId) ==
    LET Matches(r) ==
            /\ authenticatorId = "" \/ r.authenticatorId = authenticatorId
            /\ requestId = 0 \/ r.id = requestId
            /\ r.token = token
            /\ r.status = "Verified"
            /\ r.purpose = purpose
        request == FindRequest(SelectSeq(stored.authRequests, Matches))
        Others(r) == r.id # request.id
    IN IF request = NoAuthRequest
       THEN [ok |-> FALSE, auth |-> stored]
       ELSE [ok |-> TRUE,
             auth |-> [stored EXCEPT !.authRequests = SelectSeq(@, Others)]]

\* What an operation on the Auth record leaves: the response code, the stored
\* record, and for the history the token it redeemed, the request it was about
\* (as stored before the call) and what the provider's verification did.
AuthOutcome(code, stored, token, before, verify) ==
    [res |-> code, auth |-> stored, token |-> token, before |-> before, verify |-> verify,
     returned |-> NoReturn, session |-> NoReturn]

\* Controller.startAuthRequest. provider.initAuthRequest is called for every
\* request that finds an authenticator, before the device is looked at: the
\* outcome notes the call in `verify`.
startAuthRequest(stored, device, purpose, authenticatorId) ==
    LET a == stored
        Available(m) ==
            /\ authenticatorId = "" \/ m.id = authenticatorId
            /\ purpose = "TestAuthenticator" \/ purpose \in m.purposes
            /\ m.status = "active"
        available == SortByMfaOrder(SelectSeq(getAuthenticators(a), Available), a.mfaOrder)
    IN IF available = <<>>
       THEN AuthOutcome("NOT_FOUND", stored, 0, NoAuthRequest, "")
       ELSE LET authenticator == available[1]
                deviceTrusted == device \in a.trustedDevices
                request == [id |-> nextId + 1, token |-> nextId + 1,
                            type |-> authenticator.type,
                            purpose |-> IF purpose = "Login" /\ ~a.account
                                        THEN "Signup" ELSE purpose,
                            status |-> "Pending", tries |-> 0,
                            authenticatorId |-> authenticator.id]
                final == IF request.purpose = "Login" /\ deviceTrusted
                         THEN [request EXCEPT !.status = "Verified"]
                         ELSE request
            IN AuthOutcome("ok", [a EXCEPT !.authRequests = Append(@, final)],
                           0, final, "initAuthRequest")

\* Mutant of FailedTry: the failed try is not counted.
FailedTryNotCounted(request) == request

\* The catch block of completeAuthRequest: request.tries++
FailedTry(request) == [request EXCEPT !.tries = @ + 1]

\* Replace, in a copy of the record, the request with the id of the given one.
WithRequest(a, request) ==
    [a EXCEPT !.authRequests =
        [i \in 1..Len(@) |-> IF @[i].id = request.id THEN request ELSE @[i]]]

\* Controller.completeAuthRequest; providerAccepts is whether the provider's
\* verifyAuthRequest returns (TRUE) or throws (FALSE).
completeAuthRequest(stored, id, providerAccepts) ==
    LET a == stored
        HasId(r) == r.id = id
        request == FindRequest(SelectSeq(a.authRequests, HasId))
        IsTheOne(m) == m.id = request.authenticatorId
        authenticators == SelectSeq(getAuthenticators(a), IsTheOne)
    IN IF request = NoAuthRequest
       THEN AuthOutcome("AUTHENTICATION_FAILED", stored, 0, NoAuthRequest, "")
       ELSE IF authenticators = <<>> \/ authenticators[1].type # request.type
       THEN AuthOutcome("AUTHENTICATION_FAILED", stored, 0, request, "")
       ELSE IF ~providerAccepts
       THEN \* catch: count the try, save, re-raise the provider's error
            AuthOutcome("PROVIDER_ERROR", WithRequest(a, FailedTry(request)),
                        0, request, "failed")
       ELSE LET verified == [request EXCEPT !.status = "Verified"]
                a2 == WithRequest(a, verified)
            IN IF request.purpose = "TestAuthenticator"
               THEN \* save(auth), then _useAuthToken on the record just saved
                    LET used == useAuthToken(a2, verified.token, verified.purpose,
                                             verified.authenticatorId, verified.id)
                    IN IF ~used.ok
                       THEN AuthOutcome("AUTHENTICATION_FAILED",
                                        WithRequest(a2, FailedTry(verified)),
                                        0, request, "passed")
                       ELSE \* the save after the try block stores the handler's copy
                            AuthOutcome("ok", a2, 0, request, "passed")
               ELSE AuthOutcome("ok", a2, 0, request, "passed")

\* Mutant of DeviceTrusted: every device counts as trusted.
DeviceTrustedAlways(a, device) == TRUE

\* auth.trustedDevices.some(({ id }) => id === this.context.device.id)
DeviceTrusted(a, device) == device \in a.trustedDevices

\* Controller.initAuth; verify = 0 stands for no verification token. The
\* response carries the id of the new handshake (with its challenge B and
\* the key parameters).
initAuth(stored, device, verify) ==
    LET a == stored
        deviceTrusted == DeviceTrusted(a, device)
        used == IF deviceTrusted THEN [ok |-> TRUE, auth |-> stored]
                ELSE useAuthToken(stored, verify, "Login", "", 0)
        token == IF deviceTrusted THEN 0 ELSE verify
        srpId == nextSrp + 1
    IN IF ~deviceTrusted /\ verify = 0
       THEN AuthOutcome("AUTHENTICATION_REQUIRED", stored, 0, NoAuthRequest, "")
       ELSE IF ~used.ok
       THEN AuthOutcome("AUTHENTICATION_FAILED", stored, token, NoAuthRequest, "")
       ELSE IF ~a.account
       THEN AuthOutcome("NOT_FOUND", used.auth, token, NoAuthRequest, "")
       ELSE \* auth.srpSessions.push(srpState); save(auth): the copy read before
            \* _useAuthToken ran is the one saved
            [AuthOutcome("ok", [a EXCEPT !.srpSessions = @ \cup {srpId}],
                         token, NoAuthRequest, "")
                EXCEPT !.returned = [id |-> srpId, key |-> ""]]

\* Mutant of RemoveHandshake: the handshake stays on the Auth record.
KeepHandshake(srpSessions, srpId) == srpSessions

\* auth.srpSessions = auth.srpSessions.filter((s) => s.id !== srpState.id)
RemoveHandshake(srpSessions, srpId) == srpSessions \ {srpId}

\* Mutant of StripKey: the key stays on the session that is returned.
KeepKey(session) == session

\* delete session.key
StripKey(session) == [session EXCEPT !.key = ""]

\* Controller.createSession. known: the account id names a stored account
\* (storage.get throws NOT_FOUND otherwise); proofMatches: equalCT(M, srp.M1).
createSession(stored, store, known, srpId, proofMatches, device, addTrustedDevice) ==
    IF ~known
    THEN AuthOutcome("NOT_FOUND", stored, 0, NoAuthRequest, "")
    ELSE IF srpId \notin stored.srpSessions
    THEN AuthOutcome("INVALID_CREDENTIALS", stored, 0, NoAuthRequest, "")
    ELSE IF ~proofMatches
    THEN AuthOutcome("INVALID_CREDENTIALS", stored, 0, NoAuthRequest, "failed")
    ELSE LET session == StoredSession(Cardinality(DOMAIN store) + 1, 0, 0)
             a == [stored EXCEPT
                      !.sessions = Append(@, SessionInfo(session)),
                      !.srpSessions = RemoveHandshake(@, srpId),
                      !.trustedDevices = IF addTrustedDevice THEN @ \cup {device} ELSE @]
             result == StripKey(session)
         IN [AuthOutcome("ok", a, 0, NoAuthRequest, "passed")
                EXCEPT !.session = session,
                       !.returned = [id |-> result.id, key |-> result.key]]

\* Controller.createAccount (verifyEmailOnSignup is on)
createAccount(stored, device, token) ==
    LET used == useAuthToken(stored, token, "Signup", "", 0)
        a == used.auth
    IN IF ~used.ok
       THEN AuthOutcome("AUTHENTICATION_FAILED", stored, token, NoAuthRequest, "")
       ELSE IF a.account
       THEN AuthOutcome("ACCOUNT_EXISTS", a, token, NoAuthRequest, "")
       ELSE AuthOutcome("ok",
                        [a EXCEPT !.account = TRUE,
                                  !.trustedDevices = @ \cup {device}],
                        token, NoAuthRequest, "")

\* Context.device of a request that names no device.
NoDevice == ""

\* Mutant of ResetTrustedDevices: the devices trusted before stay trusted.
KeepTrustedDevices(trusted, device) ==
    trusted \cup (IF device = NoDevice THEN {} ELSE {device})

\* trustedDevices: [], then
\* this.context.device && auth.trustedDevices.push(this.context.device)
ResetTrustedDevices(trusted, device) == IF device = NoDevice THEN {} ELSE {device}

\* Controller.recoverAccount, as far as the Auth record goes
recoverAccount(stored, device, token) ==
    LET used == useAuthToken(stored, token, "Recover", "", 0)
        a == used.auth
    IN IF ~used.ok
       THEN AuthOutcome("AUTHENTICATION_FAILED", stored, token, NoAuthRequest, "")
       ELSE IF ~a.account
       THEN AuthOutcome("NOT_FOUND", a, token, NoAuthRequest, "")
       ELSE AuthOutcome("ok", [a EXCEPT !.trustedDevices = ResetTrustedDevices(@, device)],
                        token, NoAuthRequest, "")

\* Controller.getLegacyData called without a session; legacy is what the legacy
\* server holds for the email: "none" (no legacy server), "empty" or "data".
getLegacyData(stored, verify, legacy) ==
    LET used == useAuthToken(stored, verify, "GetLegacyData", "", 0)
    IN IF verify = 0
       THEN AuthOutcome("INVALID_SESSION", stored, 0, NoAuthRequest, "")
       ELSE IF ~used.ok
       THEN AuthOutcome("AUTHENTICATION_FAILED", stored, verify, NoAuthRequest, "")
       ELSE AuthOutcome(CASE legacy = "none" -> "NOT_SUPPORTED"
                          [] legacy = "empty" -> "NOT_FOUND"
                          [] OTHER -> "ok",
                        used.auth, verify, NoAuthRequest, "")

\* Controller.getKeyStoreEntry for a key store entry bound to the registered
\* authenticator, called with a session of the account.
getKeyStoreEntry(stored, mfaToken) ==
    LET used == useAuthToken(stored, mfaToken, "AccessKeyStore", RegisteredAuthenticator.id, 0)
    IN IF ~stored.account
       THEN AuthOutcome("INVALID_SESSION", stored, 0, NoAuthRequest, "")
       ELSE IF ~used.ok
       THEN AuthOutcome("AUTHENTICATION_FAILED", stored, mfaToken, NoAuthRequest, "")
       ELSE AuthOutcome("ok", used.auth, mfaToken, NoAuthRequest, "")

\* No request has arrived: an empty queue, the clock at its first reading.
NoRequests ==
    /\ orgCall = NoOrgCall
    /\ requestQueue = [i \in Ids |-> 0]
    /\ resolved = [r \in Reqs |-> FALSE]
    /\ pc = [r \in Reqs |-> "new"]
    /\ req = [r \in Reqs |-> NoRequest]
    /\ ctx = [r \in Reqs |-> Anonymous]
    /\ promises = [r \in Reqs |-> {}]
    /\ locks = [r \in Reqs |-> {}]
    /\ res = [r \in Reqs |-> ""]
    /\ earlier = [r \in Reqs |-> {}]
    /\ storedAtCall = [r \in Reqs |-> -1]
    /\ lastWrites = {}
    /\ now = Epoch
    /\ authReq = [r \in Reqs |-> NoAuthHeader]
    /\ ctxSession = [r \in Reqs |-> NoSession]
    /\ age = [r \in Reqs |-> 0]

\* A Server that has not been called: two accounts without orgs in storage,
\* an empty queue, no request.
ServerIdle ==
    /\ accounts = [a \in AccountIds |->
                      [id |-> a, revision |-> InitRevision, name |-> "n1", orgs |-> <<>>]]
    /\ orgs = [o \in OrgIds |-> [revision |-> InitRevision, members |-> << >>]]
    /\ nextRev = InitRevision + 1
    /\ vaults = NoVaults
    /\ NoRequests

\* The session the account of the initial Auth record is logged in with.
FirstSession == StoredSession("s1", 0, Epoch)

\* auth.sessions.forEach((s) => this.storage.delete(...)): the Session records
\* of the sessions the Auth record lists are deleted.
DeleteSessions(stored, a) == [s \in DOMAIN stored \ {a.sessions[i].id : i \in 1..Len(a.sessions)} |-> stored[s]]

\* The initial Auth records: an email storage does not know, and an account
\* with a registered authenticator, signed up and logged in from device d1.
AuthInit ==
    /\ \/ /\ auth = NewAuth
          /\ sessions = NoSessions
       \/ /\ auth = [NewAuth EXCEPT !.account = TRUE,
                                    !.authenticators = <<RegisteredAuthenticator>>,
                                    !.trustedDevices = {"d1"},
                                    !.sessions = <<SessionInfo(FirstSession)>>]
          /\ sessions = [s \in {FirstSession.id} |-> FirstSession]
    /\ nextId = 0
    /\ nextSrp = 0
    /\ redeemed = {}
    /\ authCall = NoCall
    /\ ServerIdle

\* An operation on the Auth record runs to its end: the record it leaves is
\* stored, and the call is noted in the history with what it was given (the
\* id of a request or handshake; the device of a login call; for initAuth the token given;
\* for createSession whether the account id names a stored account and whether
\* the proof is the one the server computes).
AuthCall(op, id, device, given, known, proofMatches, out) ==
    /\ auth' = out.auth
    /\ authCall' = [op |-> op, res |-> out.res, token |-> out.token, id |-> id,
                    verify |-> out.verify, before |-> out.before,
                    device |-> device, given |-> given, account |-> known,
                    proof |-> proofMatches,
                    returned |-> out.returned]
    /\ redeemed' = IF op \in RedeemOps /\ out.res = "ok" /\ out.token # 0
                   THEN redeemed \cup {out.token} ELSE redeemed
    /\ UNCHANGED <<pipeVars, now, authReq, ctxSession, age, orgVars>>

Tokens == 1..MaxAuthRequests

SrpIds == 1..MaxSrpSessions

StartAuthRequest ==
    /\ nextId < MaxAuthRequests
    /\ \E device \in Devices, purpose \in Purposes, authenticatorId \in {"", "m1", "ad_hoc"} :
          LET out == startAuthRequest(auth, device, purpose, authenticatorId)
          IN /\ AuthCall("startAuthRequest", out.before.id, "", 0, TRUE, TRUE, out)
             /\ nextId' = IF out.res = "ok" THEN nextId + 1 ELSE nextId
    /\ UNCHANGED <<sessions, nextSrp>>

CompleteAuthRequest ==
    \E id \in Tokens, providerAccepts \in BOOLEAN :
        LET out == completeAuthRequest(auth, id, providerAccepts)
        IN /\ \A i \in 1..Len(out.auth.authRequests) : out.auth.authRequests[i].tries <= MaxTries
           /\ AuthCall("completeAuthRequest", id, "", 0, TRUE, TRUE, out)
           /\ UNCHANGED <<nextId, sessions, nextSrp>>

InitAuth ==
    \E device \in Devices, verify \in {0} \cup Tokens :
        LET out == initAuth(auth, device, verify)
        IN /\ out.res = "ok" => nextSrp < MaxSrpSessions
           /\ AuthCall("initAuth", 0, device, verify, TRUE, TRUE, out)
           /\ nextSrp' = IF out.res = "ok" THEN nextSrp + 1 ELSE nextSrp
           /\ UNCHANGED <<nextId, sessions>>

CreateSession ==
    \E known \in BOOLEAN, srpId \in SrpIds, proofMatches \in BOOLEAN,
       device \in Devices, addTrustedDevice \in BOOLEAN :
        LET out == createSession(auth, sessions, known, srpId, proofMatches,
                                 device, addTrustedDevice)
        IN /\ known => auth.account
           /\ AuthCall("createSession", srpId, device, 0, known, proofMatches, out)
           /\ sessions' = IF out.res = "ok"
                          THEN [s \in DOMAIN sessions \cup {out.session.id} |->
                                   IF s = out.session.id THEN out.session ELSE sessions[s]]
                          ELSE sessions
           /\ UNCHANGED <<nextId, nextSrp>>

CreateAccount ==
    \E device \in Devices, token \in Tokens :
        /\ AuthCall("createAccount", 0, "", 0, TRUE, TRUE,
                    createAccount(auth, device, token))
        /\ UNCHANGED <<nextId, sessions, nextSrp>>

RecoverAccount ==
    \E device \in Devices \cup {NoDevice}, token \in Tokens :
        LET out == recoverAccount(auth, device, token) IN
        /\ AuthCall("recoverAccount", 0, "", 0, TRUE, TRUE, out)
        /\ sessions' = IF out.res = "ok" THEN DeleteSessions(sessions, out.auth) ELSE sessions
        /\ UNCHANGED <<nextId, nextSrp>>

GetLegacyData ==
    \E verify \in {0} \cup Tokens, legacy \in {"none", "empty", "data"} :
        /\ AuthCall("getLegacyData", 0, "", 0, TRUE, TRUE,
                    getLegacyData(auth, verify, legacy))
        /\ UNCHANGED <<nextId, sessions, nextSrp>>

GetKeyStoreEntry ==
    \E mfaToken \in Tokens :
        /\ AuthCall("getKeyStoreEntry", 0, "", 0, TRUE, TRUE,
                    getKeyStoreEntry(auth, mfaToken))
        /\ UNCHANGED <<nextId, sessions, nextSrp>>

NextAuth ==
    \/ StartAuthRequest
    \/ CompleteAuthRequest
    \/ InitAuth
    \/ CreateAccount
    \/ RecoverAccount
    \/ GetLegacyData
    \/ GetKeyStoreEntry

SpecAuth == AuthInit /\ [][NextAuth]_vars

\* ------------------------------------------------------------------ login
\*
\* The two calls of a login, initAuth and createSession, on the Auth record of
\* an email without account, of an account, and of an account that holds a
\* Verified request of purpose Login (startAuthRequest from the trusted device).

VerifiedLoginRequest ==
    [id |-> 1, token |-> 1, type |-> RegisteredAuthenticator.type,
     purpose |-> "Login", status |-> "Verified", tries |-> 0,
     authenticatorId |-> RegisteredAuthenticator.id]

LoginInit ==
    /\ \E requests \in {<<>>, <<VerifiedLoginRequest>>}, registered \in BOOLEAN :
          /\ requests # <<>> => registered
          /\ auth = IF registered
                    THEN [NewAuth EXCEPT !.account = TRUE,
                                         !.authenticators = <<RegisteredAuthenticator>>,
                                         !.trustedDevices = {"d1"},
                                         !.authRequests = requests]
                    ELSE NewAuth
          /\ nextId = Len(requests)
    /\ nextSrp = 0
    /\ redeemed = {}
    /\ authCall = NoCall
    /\ sessions = NoSessions
    /\ ServerIdle

NextLogin ==
    \/ InitAuth
    \/ CreateSession

SpecLogin == LoginInit /\ [][NextLogin]_vars

\* ============================================= authenticate and the Auth record

\* Number of Server.handle calls that carry a session.
MaxCalls == 2

Calls == 1..MaxCalls

\* A second authenticator the account has registered.
SecondAuthenticator ==
    [id |-> "m2", type |-> "totp", status |-> "active", purposes |-> {"Login"}]

\* now - auth.time of the requests sent: a time stamp one past the window in
\* the future, the present one, one at the end of the window and one past it.
Ages == {-(maxRequestAge + 1), 0, maxRequestAge, maxRequestAge + 1}

\* Mutant of Verifies: the signature is not checked.
VerifiesAlways(header) == TRUE

\* session.verify(req): whether the signature of the request verifies against
\* the key of the session.
Verifies(header) == header.signed

\* Mutant of TooOld: a request at the end of the window is rejected too.
TooOldInclusive(a) == a >= maxRequestAge

\* age > this.config.maxRequestAge
TooOld(a) == a > maxRequestAge

\* session.expires && session.expires < new Date()
Expired(session, clock) == session.expires # 0 /\ session.expires < clock

\* Controller.authenticate up to the load of the account: the error it throws
\* for the auth header, or "ok".
authenticate(header, stored, clock) ==
    IF header.session \notin DOMAIN stored THEN "INVALID_SESSION"
    ELSE IF Expired(stored[header.session], clock) THEN "SESSION_EXPIRED"
    ELSE IF ~Verifies(header) THEN "INVALID_REQUEST"
    ELSE IF TooOld(clock - header.time) THEN "MAX_REQUEST_AGE_EXCEEDED"
    ELSE "ok"

\* auth.sessions[i] = session.info when findIndex finds the session's id,
\* auth.sessions.push(session.info) otherwise.
UpsertSession(a, info) ==
    IF \E i \in 1..Len(a.sessions) : a.sessions[i].id = info.id
    THEN LET i == CHOOSE k \in 1..Len(a.sessions) :
                     /\ a.sessions[k].id = info.id
                     /\ \A j \in 1..(k - 1) : a.sessions[j].id # info.id
         IN [a EXCEPT !.sessions[i] = info]
    ELSE [a EXCEPT !.sessions = Append(@, info)]

\* Controller.deleteAuthenticator on the Auth object of the context.
deleteAuthenticator(a, id) ==
    LET Others(m) == m.id # id
    IN IF Len(a.authenticators) <= 1
       THEN [res |-> "BAD_REQUEST", auth |-> a, saved |-> FALSE]
       ELSE IF \A i \in 1..Len(a.authenticators) : a.authenticators[i].id # id
       THEN [res |-> "NOT_FOUND", auth |-> a, saved |-> FALSE]
       ELSE [res |-> "ok",
             auth |-> [a EXCEPT !.authenticators = SelectSeq(@, Others)],
             saved |-> TRUE]

\* The requests sent: no auth header, or a header naming a session, signed
\* with the key of that session or not, for deleteAuthenticator.
AuthHeadersAt(clock) ==
    {[NoAuthHeader EXCEPT !.method = "deleteAuthenticator", !.param = "m1"]}
    \cup {[session |-> s, signed |-> b, time |-> clock - d,
           method |-> "deleteAuthenticator", param |-> p] :
             s \in SessionIds \cup {UnknownSession}, b \in BOOLEAN, d \in Ages,
             p \in {"m1", "m2", "m0"}}

\* The account has one or two authenticators and three sessions, one of which
\* expires; Auth.sessions lists them all, or has lost the entry of s2 to a
\* save of an older copy of the record.
SessInit ==
    /\ ServerIdle
    /\ nextId = 0
    /\ nextSrp = 0
    /\ redeemed = {}
    /\ authCall = NoCall
    /\ \E n \in 1..2, listed \in {<<"s1", "s2", "s3">>, <<"s1", "s3">>} :
          auth = [NewAuth EXCEPT
                     !.account = TRUE,
                     !.authenticators = SubSeq(<<RegisteredAuthenticator, SecondAuthenticator>>, 1, n),
                     !.sessions = [i \in 1..Len(listed) |-> [id |-> listed[i], lastUsed |-> Epoch]]]
    /\ sessions = [s \in SessionIds |->
                      StoredSession(s, IF s = "s3" THEN Epoch + 1 ELSE 0, Epoch)]

\* Server.handle is called (calls arrive in the order of their numbers) and
\* Controller.authenticate runs up to the point where the context is
\* populated: without auth header it returns at once; a header that is
\* rejected makes Server.handle answer with the error; otherwise the session,
\* the account and the Auth record are loaded into the context.
Authenticate(r) ==
    /\ r \in Calls
    /\ pc[r] = "new"
    /\ \A q \in Calls : q < r => pc[q] # "new"
    /\ now' = now + 1
    /\ \E header \in AuthHeadersAt(now') :
          LET code == authenticate(header, sessions, now')
          IN /\ authReq' = [authReq EXCEPT ![r] = header]
             /\ IF header.session = ""
                THEN /\ pc' = [pc EXCEPT ![r] = "authenticated"]
                     /\ UNCHANGED <<res, ctx, ctxSession, age>>
                ELSE /\ age' = [age EXCEPT ![r] =
                                   IF code \in {"MAX_REQUEST_AGE_EXCEEDED", "ok"}
                                   THEN now' - header.time ELSE 0]
                     /\ IF code # "ok"
                        THEN /\ pc' = [pc EXCEPT ![r] = "returned"]
                             /\ res' = [res EXCEPT ![r] = code]
                             /\ UNCHANGED <<ctx, ctxSession>>
                        ELSE /\ pc' = [pc EXCEPT ![r] = "authLoaded"]
                             /\ ctx' = [ctx EXCEPT ![r] = accounts["a1"]]
                             /\ ctxSession' = [ctxSession EXCEPT
                                                  ![r] = [session |-> sessions[header.session],
                                                          auth |-> auth]]
                             /\ UNCHANGED res
    /\ lastWrites' = {}
    /\ UNCHANGED <<accounts, orgs, nextRev, requestQueue, resolved, req, promises,
                   locks, earlier, storedAtCall, authVars, sessions, orgVars>>

\* The end of Controller.authenticate: the session's last-used data are
\* updated, its info is put into the Auth object of the context, and the
\* session, the account and the Auth object are saved.
AuthenticateSave(r) ==
    /\ r \in Calls
    /\ pc[r] = "authLoaded"
    /\ authReq[r].session # ""
    /\ LET session == [ctxSession[r].session EXCEPT !.lastUsed = now]
           a == UpsertSession(ctxSession[r].auth, SessionInfo(session))
       IN /\ sessions' = [sessions EXCEPT ![session.id] = session]
          /\ auth' = a
          /\ ctxSession' = [ctxSession EXCEPT ![r] = [session |-> session, auth |-> a]]
    /\ accounts' = [accounts EXCEPT ![ctx[r].id] = ctx[r]]
    /\ lastWrites' = {[req |-> r, id |-> ctx[r].id, site |-> "authenticate"]}
    /\ pc' = [pc EXCEPT ![r] = "authenticated"]
    /\ UNCHANGED <<orgs, nextRev, requestQueue, resolved, req, ctx, promises, locks,
                   res, earlier, storedAtCall, nextId, redeemed, authCall, nextSrp, now,
                   authReq, age, orgVars>>

\* Controller.process runs the handler of the request to its end.
ProcessCall(r) ==
    /\ r \in Calls
    /\ pc[r] = "inProcess"
    /\ authReq[r].method = "deleteAuthenticator"
    /\ LET out == IF authReq[r].session = ""
                  THEN [res |-> "INVALID_SESSION", auth |-> auth, saved |-> FALSE]
                  ELSE deleteAuthenticator(ctxSession[r].auth, authReq[r].param)
       IN /\ res' = [res EXCEPT ![r] = out.res]
          /\ auth' = IF out.saved THEN out.auth ELSE auth
          /\ ctxSession' = IF out.saved
                           THEN [ctxSession EXCEPT ![r].auth = out.auth]
                           ELSE ctxSession
    /\ pc' = [pc EXCEPT ![r] = "finally"]
    /\ lastWrites' = {}
    /\ UNCHANGED <<accounts, orgs, nextRev, requestQueue, resolved, req, ctx, promises,
                   locks, earlier, storedAtCall, nextId, redeemed, authCall, nextSrp,
                   sessions, now, authReq, age, orgVars>>

NextSession ==
    \E r \in Calls :
        \/ Authenticate(r)
        \/ AuthenticateSave(r)
        \/ AddToQueue(r)
        \/ Enter(r)
        \/ ProcessCall(r)
        \/ Done(r)

SpecSession == SessInit /\ [][NextSession]_vars

\* ============================================== the operations on one org
\*
\* updateOrg calls run one after the other; each call's context holds the
\* caller's stored account. The provisioner is outside server.ts: what
\* getProvisioning answers for the org is an input of the call.

\* The number of updateOrg calls that save the org.
MaxOrgUpdates == 1

\* The largest number of groups a request submits.
MaxGroups == 1

\* The org the calls are about, and the account that created it.
TheOrg == "o1"
Creator == "a1"

\* A stored org of one owner, and possibly a second member with a role.
StoredOrg(owner, others) ==
    [revision |-> InitRevision,
     members |-> [m \in {owner} \cup DOMAIN others |-> "n1"],
     owner |-> owner,
     name |-> "n1",
     roles |-> [m \in {owner} \cup DOMAIN others |->
                   IF m = owner THEN "Owner" ELSE others[m]],
     groups |-> 0,
     invites |-> {},
     minMemberUpdated |-> 0]

\* provisioning.orgs.find((o) => o.orgId === id): no entry, or an entry with a
\* status and the members and groups quota (-1: no limit).
NoProvisioning == [status |-> "none", members |-> -1, groups |-> -1]

OrgProvisionings ==
    {NoProvisioning,
     [status |-> "Frozen", members |-> 1, groups |-> 0],
     [status |-> "Active", members |-> -1, groups |-> -1],
     [status |-> "Active", members |-> 1, groups |-> 0]}

\* A revision no stored org carries.
StaleRevision == InitRevision - 1

\* The member lists a request can submit, account id -> role: the creator,
\* if listed, as Owner, another account with any other role.
MemberLists ==
    {ms \in UNION {[S -> OrgRoles] : S \in SUBSET AccountIds} :
        \A m \in DOMAIN ms : ms[m] = "Owner" <=> m = Creator}

\* The Org object of a request that submits no member, group or invite.
EmptyOrg ==
    [id |-> "", revision |-> StaleRevision, name |-> "n1",
     members |-> [m \in {} |-> "Member"], groups |-> 0, invites |-> {},
     minMemberUpdated |-> 0]

\* Mutant of IsOwner: an admin counts as owner too.
IsOwnerOrAdmin(org, account) ==
    \/ org.owner = account.id
    \/ account.id \in DOMAIN org.roles /\ org.roles[account.id] \in {"Owner", "Admin"}

\* org.owner === account.id || org.isOwner(account)
IsOwner(org, account) ==
    \/ org.owner = account.id
    \/ account.id \in DOMAIN org.roles /\ org.roles[account.id] = "Owner"

\* Mutant of IsAdmin: a plain member counts as admin too.
IsAdminOrMember(org, account) ==
    \/ org.owner = account.id
    \/ account.id \in DOMAIN org.roles /\ org.roles[account.id] \in {"Owner", "Admin", "Member"}

\* Mutant of IsAdmin: every caller counts as admin.
IsAdminAlways(org, account) == TRUE

\* isOwner || org.isAdmin(account)
IsAdmin(org, account) ==
    \/ IsOwner(org, account)
    \/ account.id \in DOMAIN org.roles /\ org.roles[account.id] = "Admin"

\* Mutant of OverQuota: a count equal to the quota is refused too.
OverQuotaInclusive(quota, count) == quota # -1 /\ count >= quota

\* quota !== -1 && length > quota
OverQuota(quota, count) == quota # -1 /\ count > quota

\* Mutant of WatermarkLowered: the watermark is not compared.
WatermarkNotCompared(request, org) == FALSE

\* minMemberUpdated < org.minMemberUpdated
WatermarkLowered(request, org) == request.minMemberUpdated < org.minMemberUpdated

\* The loop over removedMembers: acc.orgs = acc.orgs.filter(...); save(acc)
LeaveOrg(o, removed, st) ==
    Store([a \in AccountIds |->
              IF a \in removed
              THEN [st.accounts[a] EXCEPT !.orgs = WithoutOrg(@, o)]
              ELSE st.accounts[a]],
          st.orgs, st.nextRev,
          st.writes \cup {[id |-> m, site |-> "updateOrg"] : m \in removed})

\* Controller.updateOrg. request is the Org object the client submits,
\* provisioning the entry the provisioner holds for the org.
updateOrg(account, request, provisioning, st) ==
    IF request.id \notin DOMAIN st.orgs
    THEN Outcome("NOT_FOUND", account, st)
    ELSE
    LET org == st.orgs[request.id]
        isOwner == IsOwner(org, account)
        isAdmin == IsAdmin(org, account)
        members == DOMAIN request.members
        addedMembers == members \ DOMAIN org.members
        removedMembers == DOMAIN org.members \ members
        addedInvites == request.invites \ org.invites
        removedInvites == org.invites \ request.invites
        roleChanged == \E m \in members :
                          m \notin DOMAIN org.roles \/ org.roles[m] # request.members[m]
        assigned == [org EXCEPT !.members = [m \in members |->
                                                IF m \in DOMAIN org.members
                                                THEN org.members[m]
                                                ELSE st.accounts[m].name],
                                !.roles = request.members,
                                !.groups = request.groups]
        updated == IF isOwner
                   THEN [assigned EXCEPT !.name = request.name,
                                         !.invites = request.invites,
                                         !.minMemberUpdated = request.minMemberUpdated]
                   ELSE assigned
        md == updateMetaData(request.id, updated, LeaveOrg(request.id, removedMembers, st))
        saved == Store(md.st.accounts,
                       [md.st.orgs EXCEPT ![request.id] = md.org],
                       md.st.nextRev,
                       md.st.writes \cup {[id |-> request.id, site |-> "updateOrg"]})
    IN IF provisioning.status = "none"
       THEN Outcome("PROVISIONING_NOT_ALLOWED", account, st)
       ELSE IF provisioning.status = "Frozen"
       THEN Outcome("PROVISIONING_NOT_ALLOWED", account, st)
       ELSE IF request.revision # org.revision
       THEN Outcome("OUTDATED_REVISION", account, st)
       ELSE IF ~isAdmin
       THEN Outcome("INSUFFICIENT_PERMISSIONS", account, st)
       ELSE IF WatermarkLowered(request, org)
       THEN Outcome("BAD_REQUEST", account, st)
       ELSE IF /\ ~isOwner
               /\ \/ addedMembers # {}
                  \/ removedMembers # {}
                  \/ addedInvites # {}
                  \/ removedInvites # {}
                  \/ roleChanged
       THEN Outcome("INSUFFICIENT_PERMISSIONS", account, st)
       ELSE IF OverQuota(provisioning.members, Cardinality(members))
       THEN Outcome("PROVISIONING_QUOTA_EXCEEDED", account, st)
       ELSE IF OverQuota(provisioning.groups, request.groups)
       THEN Outcome("PROVISIONING_QUOTA_EXCEEDED", account, st)
       ELSE Outcome("ok", account, saved)

\* One stored org, created by Creator; the other account is no member of it
\* or a member with a role; every member's account lists the org.
OrgInit ==
    /\ \E others \in {[m \in {} |-> "Member"]} \cup
                     [AccountIds \ {Creator} -> OrgRoles \ {"Owner"}] :
          /\ orgs = [o \in {TheOrg} |-> StoredOrg(Creator, others)]
          /\ accounts = [a \in AccountIds |->
                            [id |-> a, revision |-> InitRevision, name |-> "n1",
                             orgs |-> IF a = Creator \/ a \in DOMAIN others
                                      THEN <<TheOrg>> ELSE <<>>]]
    /\ nextRev = InitRevision + 1
    /\ auth = NewAuth
    /\ nextId = 0
    /\ nextSrp = 0
    /\ redeemed = {}
    /\ authCall = NoCall
    /\ sessions = NoSessions
    /\ vaults = NoVaults
    /\ NoRequests

\* An updateOrg call of an authenticated account runs to its end.
UpdateOrg ==
    \E a \in AccountIds, o \in {TheOrg, UnknownOrg}, current \in BOOLEAN,
       name \in Names, members \in MemberLists, groups \in 0..MaxGroups,
       invites \in SUBSET InviteIds, minMemberUpdated \in 0..1,
       provisioning \in OrgProvisionings :
        LET request == [id |-> o,
                        revision |-> IF current /\ o \in DOMAIN orgs
                                     THEN orgs[o].revision ELSE StaleRevision,
                        name |-> name, members |-> members, groups |-> groups,
                        invites |-> invites, minMemberUpdated |-> minMemberUpdated]
            out == updateOrg(accounts[a], request, provisioning,
                             Store(accounts, orgs, nextRev, {}))
        IN /\ o = UnknownOrg => request = [EmptyOrg EXCEPT !.id = o]
           /\ out.res = "ok" => nextRev < InitRevision + 1 + MaxOrgUpdates
           /\ accounts' = out.st.accounts
           /\ orgs' = out.st.orgs
           /\ nextRev' = out.st.nextRev
           /\ orgCall' = [op |-> "updateOrg", account |-> a, org |-> o, res |-> out.res]
           /\ UNCHANGED <<requestQueue, resolved, pc, req, ctx, promises, locks, res,
                          earlier, storedAtCall, lastWrites, authVars, sessVars, vaults>>

NextOrg == UpdateOrg

SpecOrg == OrgInit /\ [][NextOrg]_vars

\* ------------------------------------------------------------------ vaults
\*
\* Calls of the vault handlers and of deleteOrg on one stored org and its
\* vaults, each running to its end. Here an account's orgs entries carry the
\* name and revision of the org, and a vault carries its org reference.

\* The number of successful calls that draw new revisions.
MaxVaultUpdates == 2

\* The ids uuid() yields for org vaults: v1 is stored at the start, v2 is the
\* id of the next vault created.
VaultIds == {"v1", "v2"}

\* The main vault of the creator, and a vault id storage does not hold.
PrivateVault == "p1"
UnknownVault == "v0"

\* vault.org of a private vault.
NoOrgRef == [id |-> "", name |-> "", revision |-> -1]

\* { id: org.id, name: org.name, revision: org.revision }
OrgRef(o, org) == [id |-> o, name |-> org.name, revision |-> org.revision]

\* acc.orgs.filter((o) => o.id !== org.id), on entries with name and revision
WithoutOrgEntry(orgList, o) ==
    LET Keep(x) == x.id # o IN SelectSeq(orgList, Keep)

\* The stores a vault handler reads and writes, and the uuid counter.
VaultStore(acs, ogs, vts, rev) == [accounts |-> acs, orgs |-> ogs, vaults |-> vts, nextRev |-> rev]

\* What a vault handler returns: the response code and the stores.
VaultOutcome(code, st) == [res |-> code, st |-> st]

\* The entry the provisioner holds for an org (none, or a status and the vaults
\* quota, -1: no limit) and for an account (always present).
VaultProvisionings ==
    {[status |-> "none", vaults |-> -1],
     [status |-> "Frozen", vaults |-> -1],
     [status |-> "Active", vaults |-> -1],
     [status |-> "Active", vaults |-> 1]}

AccountProvisionings == {[status |-> "Active", vaults |-> -1], [status |-> "Frozen", vaults |-> -1]}

\* Org.isOwner(account): the account is a member with role Owner.
Org_isOwner(org, account) ==
    account.id \in DOMAIN org.roles /\ org.roles[account.id] = "Owner"

\* Org.isAdmin(account): the account is a member with role Admin or above.
Org_isAdmin(org, account) ==
    account.id \in DOMAIN org.roles /\ org.roles[account.id] \in {"Owner", "Admin"}

\* Org.isSuspended(account)
Org_isSuspended(org, account) ==
    account.id \in DOMAIN org.roles /\ org.roles[account.id] = "Suspended"

\* Org.canRead(vault, account): a member that is not suspended and has the
\* vault assigned.
Org_canRead(org, v, account) ==
    /\ account.id \in DOMAIN org.roles
    /\ org.roles[account.id] # "Suspended"
    /\ \E t \in org.assigned : t.member = account.id /\ t.vault = v

\* Org.canWrite(vault, account): as canRead, with an assignment that is not
\* read-only.
Org_canWrite(org, v, account) ==
    /\ account.id \in DOMAIN org.roles
    /\ org.roles[account.id] # "Suspended"
    /\ \E t \in org.assigned : t.member = account.id /\ t.vault = v /\ ~t.readonly

\* Server.updateMetaData(org) with the entries in full: a new org revision;
\* every listed vault that exists gets the org reference and is saved; every
\* member whose account exists gets exactly one orgs entry for the org, at the
\* end of its list; vaults and members without a record are dropped from the
\* org. The caller saves the org.
updateMetaDataRefs(o, org, st) ==
    LET revised == [org EXCEPT !.revision = st.nextRev]
        ref == OrgRef(o, revised)
        listed == org.vaults \cap DOMAIN st.vaults
        ms == DOMAIN org.members \cap DOMAIN st.accounts
        vts == [v \in DOMAIN st.vaults |->
                   IF v \in listed THEN [st.vaults[v] EXCEPT !.org = ref] ELSE st.vaults[v]]
        acs == [a \in DOMAIN st.accounts |->
                   IF a \in ms
                   THEN [st.accounts[a] EXCEPT !.orgs = Append(WithoutOrgEntry(@, o), ref)]
                   ELSE st.accounts[a]]
        pruned == [revised EXCEPT !.vaults = listed,
                                  !.members = [m \in ms |-> st.accounts[m].name],
                                  !.roles = [m \in ms |-> org.roles[m]],
                                  !.assigned = {t \in @ : t.member \in ms}]
    IN [org |-> pruned, st |-> VaultStore(acs, st.orgs, vts, st.nextRev + 1)]

\* No org: what `org` is for a private vault.
NoOrg == [revision |-> -1, roles |-> [m \in {} |-> "Member"], assigned |-> {}]

\* Mutant of Unreadable: only the owner check of private vaults is made.
UnreadablePrivateOnly(hasOrg, org, vault, account) ==
    ~hasOrg /\ vault.owner # account.id

\* (org && !org.canRead(vault, account)) || (!org && vault.owner !== account.id)
Unreadable(hasOrg, org, vault, account) ==
    \/ hasOrg /\ ~Org_canRead(org, vault.id, account)
    \/ ~hasOrg /\ vault.owner # account.id

\* Controller.updateVault. request is the Vault the client submits (its id,
\* revision and data), orgProvisioning the provisioner's entry for the org of
\* the vault, accountProvisioning provisioning.account.
updateVault(account, request, orgProvisioning, accountProvisioning, st) ==
    IF request.id \notin DOMAIN st.vaults
    THEN VaultOutcome("NOT_FOUND", st)
    ELSE
    LET vault == st.vaults[request.id]
        hasOrg == vault.org # NoOrgRef
    IN IF hasOrg /\ vault.org.id \notin DOMAIN st.orgs
       THEN VaultOutcome("NOT_FOUND", st)
       ELSE
       LET org == IF hasOrg THEN st.orgs[vault.org.id] ELSE NoOrg
           prov == IF hasOrg /\ orgProvisioning.status # "none"
                   THEN orgProvisioning ELSE accountProvisioning
           written == [vault EXCEPT !.data = request.data, !.revision = st.nextRev]
           saved == VaultStore(st.accounts, st.orgs,
                               [st.vaults EXCEPT ![request.id] = written], st.nextRev + 1)
           md == updateMetaDataRefs(vault.org.id, org, saved)
           withOrg == VaultStore(md.st.accounts,
                                 [md.st.orgs EXCEPT ![vault.org.id] = md.org],
                                 md.st.vaults, md.st.nextRev)
           withAccount == VaultStore([saved.accounts EXCEPT ![account.id] =
                                         [account EXCEPT !.mainVault.revision = written.revision]],
                                     saved.orgs, saved.vaults, saved.nextRev)
       IN IF prov.status = "none"
          THEN VaultOutcome("PROVISIONING_NOT_ALLOWED", st)
          ELSE IF hasOrg /\ Org_isSuspended(org, account)
          THEN VaultOutcome("INSUFFICIENT_PERMISSIONS", st)
          ELSE IF Unreadable(hasOrg, org, vault, account)
          THEN VaultOutcome("NOT_FOUND", st)
          ELSE IF hasOrg /\ ~Org_canWrite(org, vault.id, account)
          THEN VaultOutcome("INSUFFICIENT_PERMISSIONS", st)
          ELSE IF prov.status = "Frozen"
          THEN VaultOutcome("PROVISIONING_NOT_ALLOWED", st)
          ELSE IF request.revision # vault.revision
          THEN VaultOutcome("OUTDATED_REVISION", st)
          ELSE VaultOutcome("ok", IF hasOrg THEN withOrg ELSE withAccount)

\* The id uuid() gives a new vault: one that storage does not hold.
FreshVault(st) ==
    IF "v2" \notin DOMAIN st.vaults THEN "v2"
    ELSE IF "v1" \notin DOMAIN st.vaults THEN "v1"
    ELSE UnknownVault

\* createVault after the vault is listed: org.revision = await uuid(), and
\* nothing else of the org's cached data is touched.
RefreshAfterCreate(o, org, st) ==
    [org |-> [org EXCEPT !.revision = st.nextRev],
     st |-> VaultStore(st.accounts, st.orgs, st.vaults, st.nextRev + 1)]

\* !orgProvisioning
NotProvisioned(provisioning) == provisioning.status = "none"

\* Controller.createVault. request is the Vault the client submits: the org
\* reference and the data.
createVault(account, request, orgProvisioning, st) ==
    IF request.org = NoOrgRef
    THEN VaultOutcome("BAD_REQUEST", st)
    ELSE IF request.org.id \notin DOMAIN st.orgs
    THEN VaultOutcome("NOT_FOUND", st)
    ELSE
    LET o == request.org.id
        org == st.orgs[o]
        id == FreshVault(st)
        vault == [id |-> id, owner |-> account.id, org |-> request.org,
                  revision |-> st.nextRev, data |-> request.data]
        listed == [org EXCEPT !.vaults = @ \cup {id}]
        created == VaultStore(st.accounts, st.orgs, st.vaults, st.nextRev + 1)
        md == RefreshAfterCreate(o, listed, created)
        saved == VaultStore(md.st.accounts,
                            [md.st.orgs EXCEPT ![o] = md.org],
                            [v \in DOMAIN md.st.vaults \cup {id} |->
                                IF v = id THEN vault ELSE md.st.vaults[v]],
                            md.st.nextRev)
    IN IF NotProvisioned(orgProvisioning)
       THEN VaultOutcome("PROVISIONING_NOT_ALLOWED", st)
       ELSE IF ~Org_isAdmin(org, account)
       THEN VaultOutcome("INSUFFICIENT_PERMISSIONS", st)
       ELSE IF OverQuota(orgProvisioning.vaults, Cardinality(listed.vaults))
       THEN VaultOutcome("PROVISIONING_QUOTA_EXCEEDED", st)
       ELSE VaultOutcome("ok", saved)

\* Controller.deleteVault
deleteVault(account, id, st) ==
    IF id \notin DOMAIN st.vaults
    THEN VaultOutcome("NOT_FOUND", st)
    ELSE
    LET vault == st.vaults[id] IN
    IF vault.org = NoOrgRef
    THEN VaultOutcome("INSUFFICIENT_PERMISSIONS", st)
    ELSE IF vault.org.id \notin DOMAIN st.orgs
    THEN VaultOutcome("NOT_FOUND", st)
    ELSE
    LET o == vault.org.id
        org == st.orgs[o]
        unlisted == [org EXCEPT !.vaults = @ \ {id},
                                !.assigned = {t \in @ : t.vault # id}]
        md == updateMetaDataRefs(o, unlisted, st)
        saved == VaultStore(md.st.accounts,
                            [md.st.orgs EXCEPT ![o] = md.org],
                            [v \in DOMAIN md.st.vaults \ {id} |-> md.st.vaults[v]],
                            md.st.nextRev)
    IN IF ~Org_isAdmin(org, account)
       THEN VaultOutcome("INSUFFICIENT_PERMISSIONS", st)
       ELSE VaultOutcome("ok", saved)

\* Mutant of DeletedVaults: the vaults of the org are kept.
DeletedVaultsNone(org) == {}

\* org.vaults.map((v) => this.storage.delete(...))
DeletedVaults(org) == org.vaults

\* Controller.deleteOrg. A member whose account storage does not hold makes
\* storage.get fail after the vaults are deleted.
deleteOrg(account, id, st) ==
    IF id \notin DOMAIN st.orgs
    THEN VaultOutcome("NOT_FOUND", st)
    ELSE
    LET org == st.orgs[id]
        ms == DOMAIN org.members
        vts == [v \in DOMAIN st.vaults \ DeletedVaults(org) |-> st.vaults[v]]
        acs == [a \in DOMAIN st.accounts |->
                   IF a \in ms
                   THEN [st.accounts[a] EXCEPT !.orgs = WithoutOrgEntry(@, id)]
                   ELSE st.accounts[a]]
        deleted == VaultStore(acs, [x \in DOMAIN st.orgs \ {id} |-> st.orgs[x]],
                              vts, st.nextRev)
    IN IF ~Org_isOwner(org, account)
       THEN VaultOutcome("INSUFFICIENT_PERMISSIONS", st)
       ELSE IF ~(ms \subseteq DOMAIN st.accounts)
       THEN VaultOutcome("NOT_FOUND", VaultStore(acs, st.orgs, vts, st.nextRev))
       ELSE VaultOutcome("ok", deleted)

\* account.mainVault.id
MainVault(a) == IF a = Creator THEN PrivateVault ELSE "p2"

\* A vault as stored.
StoredVault(id, owner, org) ==
    [id |-> id, owner |-> owner, org |-> org, revision |-> InitRevision, data |-> 0]

\* The assignments of vault v1 to the members of the org.
Assignment(member, access) ==
    IF access = "none" THEN {}
    ELSE {[member |-> member, vault |-> "v1", readonly |-> access = "read"]}

\* One stored org of Creator that lists vault v1; the other account is no
\* member or a member with a role, with or without an assignment of the vault;
\* every account has its main vault.
VaultInit ==
    /\ \E others \in {[m \in {} |-> "Member"]} \cup
                     [AccountIds \ {Creator} -> OrgRoles \ {"Owner"}],
          mine \in {"none", "write"}, theirs \in {"none", "read", "write"} :
          LET org == StoredOrg(Creator, others) @@
                     [vaults |-> {"v1"},
                      assigned |-> Assignment(Creator, mine) \cup
                                   UNION {Assignment(m, theirs) : m \in DOMAIN others}]
          IN /\ DOMAIN others = {} => theirs = "none"
             /\ orgs = [o \in {TheOrg} |-> org]
             /\ accounts = [a \in AccountIds |->
                               [id |-> a, revision |-> InitRevision, name |-> "n1",
                                orgs |-> IF a = Creator \/ a \in DOMAIN others
                                         THEN <<OrgRef(TheOrg, org)>> ELSE <<>>,
                                mainVault |-> [id |-> MainVault(a), revision |-> InitRevision]]]
             /\ vaults = [v \in {"v1"} \cup {MainVault(a) : a \in AccountIds} |->
                             IF v = "v1" THEN StoredVault(v, Creator, OrgRef(TheOrg, org))
                             ELSE StoredVault(v, CHOOSE a \in AccountIds : MainVault(a) = v,
                                              NoOrgRef)]
    /\ nextRev = InitRevision + 1
    /\ auth = NewAuth
    /\ nextId = 0
    /\ nextSrp = 0
    /\ redeemed = {}
    /\ authCall = NoCall
    /\ sessions = NoSessions
    /\ NoRequests

\* The stores as a vault handler finds them.
VaultState == VaultStore(accounts, orgs, vaults, nextRev)

\* A handler call has returned: the stores it leaves and the record of the call.
VaultCall(op, a, target, out) ==
    /\ out.res = "ok" => nextRev < InitRevision + 1 + 2 * MaxVaultUpdates
    /\ accounts' = out.st.accounts
    /\ orgs' = out.st.orgs
    /\ vaults' = out.st.vaults
    /\ nextRev' = out.st.nextRev
    /\ orgCall' = [op |-> op, account |-> a, org |-> target, res |-> out.res]
    /\ UNCHANGED <<requestQueue, resolved, pc, req, ctx, promises, locks, res,
                   earlier, storedAtCall, lastWrites, authVars, sessVars>>

\* The Vault objects a client submits to updateVault.
UpdateVaultRequests ==
    {[id |-> v, revision |-> IF current /\ v \in DOMAIN vaults
                             THEN vaults[v].revision ELSE StaleRevision,
      data |-> 1] :
        v \in VaultIds \cup {PrivateVault, UnknownVault}, current \in BOOLEAN}

\* The Vault objects a client submits to createVault: for the org as stored,
\* for an org storage does not hold, and without an org.
CreateVaultRequests ==
    {[org |-> ref, data |-> 0] :
        ref \in {NoOrgRef, [id |-> UnknownOrg, name |-> "n1", revision |-> InitRevision]} \cup
                {OrgRef(o, orgs[o]) : o \in DOMAIN orgs}}

\* An updateVault call of an authenticated account runs to its end.
UpdateVault ==
    \E a \in AccountIds, request \in UpdateVaultRequests,
       orgProvisioning \in VaultProvisionings, accountProvisioning \in AccountProvisionings :
        VaultCall("updateVault", a, request.id,
                  updateVault(accounts[a], request, orgProvisioning, accountProvisioning,
                              VaultState))

\* A createVault call of an authenticated account runs to its end.
CreateVault ==
    \E a \in AccountIds, request \in CreateVaultRequests,
       orgProvisioning \in VaultProvisionings :
        VaultCall("createVault", a, request.org.id,
                  createVault(accounts[a], request, orgProvisioning, VaultState))

\* A deleteVault call of an authenticated account runs to its end.
DeleteVault ==
    \E a \in AccountIds, id \in VaultIds \cup {PrivateVault, UnknownVault} :
        VaultCall("deleteVault", a, id, deleteVault(accounts[a], id, VaultState))

\* A deleteOrg call of an authenticated account runs to its end.
DeleteOrg ==
    \E a \in AccountIds, id \in {TheOrg, UnknownOrg} :
        VaultCall("deleteOrg", a, id, deleteOrg(accounts[a], id, VaultState))

NextVault == UpdateVault \/ CreateVault \/ DeleteVault \/ DeleteOrg

SpecVault == VaultInit /\ [][NextVault]_vars

\* ----------------------------------------------------- recovery and reads
\*
\* recoverAccount of a member of the stored org, and the reads getOrg, getVault
\* and getInvite, each call running to its end.

\* The email an invite was sent to that is the email of no account.
NoRecipient == "nobody"

\* Org.isMember(account): the account is listed in org.members, whatever its role.
Org_isMember(org, account) == account.id \in DOMAIN org.roles

\* Mutant of HiddenOrg: the org is shown to every account.
HiddenOrgNever(org, account) == FALSE

\* org.owner !== account.id && !org.isMember(account)
HiddenOrg(org, account) == org.owner # account.id /\ ~Org_isMember(org, account)

\* Controller.getOrg
getOrg(account, id, st) ==
    IF id \notin DOMAIN st.orgs
    THEN VaultOutcome("NOT_FOUND", st)
    ELSE IF HiddenOrg(st.orgs[id], account)
    THEN VaultOutcome("NOT_FOUND", st)
    ELSE VaultOutcome("ok", st)

\* Controller.getVault
getVault(account, id, st) ==
    IF id \notin DOMAIN st.vaults
    THEN VaultOutcome("NOT_FOUND", st)
    ELSE
    LET vault == st.vaults[id]
        hasOrg == vault.org # NoOrgRef
    IN IF hasOrg /\ vault.org.id \notin DOMAIN st.orgs
       THEN VaultOutcome("NOT_FOUND", st)
       ELSE
       LET org == IF hasOrg THEN st.orgs[vault.org.id] ELSE NoOrg
       IN IF hasOrg /\ Org_isSuspended(org, account)
          THEN VaultOutcome("INSUFFICIENT_PERMISSIONS", st)
          ELSE IF Unreadable(hasOrg, org, vault, account)
          THEN VaultOutcome("NOT_FOUND", st)
          ELSE VaultOutcome("ok", st)

\* Controller.getInvite. org.inviteEmails gives the email each invite of the
\* org was sent to; the email of an account is named by the account's id.
getInvite(account, o, id, st) ==
    IF o \notin DOMAIN st.orgs
    THEN VaultOutcome("NOT_FOUND", st)
    ELSE
    LET org == st.orgs[o] IN
    IF \/ id \notin org.invites
       \/ ~Org_isOwner(org, account) /\ org.inviteEmails[id] # account.id
    THEN VaultOutcome("NOT_FOUND", st)
    ELSE VaultOutcome("ok", st)

\* Mutant of Suspend: the role is kept.
SuspendNot(org, a) == org

\* member.role = OrgRole.Suspended
Suspend(org, a) == [org EXCEPT !.roles[a] = "Suspended"]

\* The loop of recoverAccount over account.orgs: in every org the account does
\* not own its member is suspended and the org is saved. An org storage does
\* not hold makes storage.get throw NOT_FOUND; getMember(account)! on an org
\* that does not list the account throws (SERVER_ERROR).
RECURSIVE SuspendMemberships(_, _, _)
SuspendMemberships(orgList, account, st) ==
    IF orgList = <<>> THEN VaultOutcome("ok", st)
    ELSE LET o == Head(orgList).id IN
         IF o \notin DOMAIN st.orgs
         THEN VaultOutcome("NOT_FOUND", st)
         ELSE LET org == st.orgs[o] IN
              IF Org_isOwner(org, account)
              THEN SuspendMemberships(Tail(orgList), account, st)
              ELSE IF ~Org_isMember(org, account)
              THEN VaultOutcome("SERVER_ERROR", st)
              ELSE SuspendMemberships(Tail(orgList), account,
                                      [st EXCEPT !.orgs[o] = Suspend(org, account.id)])

\* Controller.recoverAccount as a whole, for the account a of the Auth record:
\* the token is redeemed and the Auth record reset (recoverAccount above), the
\* sessions the record lists are deleted, the memberships are suspended, and
\* the account, the Auth record and a new, empty main vault are saved. When the
\* loop throws, the Auth record keeps the token redeemed and nothing else of
\* the record is saved.
recoverAccountOf(a, stored, device, token, st, sess) ==
    LET out == recoverAccount(stored, device, token)
        used == useAuthToken(stored, token, "Recover", "", 0)
        account == st.accounts[a]
        loop == SuspendMemberships(account.orgs, account, st)
        mainVault == [StoredVault(account.mainVault.id, a, NoOrgRef) EXCEPT !.revision = -1]
        saved == [loop.st EXCEPT !.vaults[account.mainVault.id] = mainVault]
    IN IF out.res # "ok"
       THEN [res |-> out.res, auth |-> out.auth, st |-> st, sessions |-> sess]
       ELSE IF loop.res # "ok"
       THEN [res |-> loop.res, auth |-> used.auth, st |-> loop.st,
             sessions |-> DeleteSessions(sess, out.auth)]
       ELSE [res |-> "ok", auth |-> out.auth, st |-> saved,
             sessions |-> DeleteSessions(sess, out.auth)]

\* The verified request the recovery redeems.
VerifiedRecoverRequest ==
    [id |-> 1, token |-> 1, type |-> AdHocAuthenticator.type,
     purpose |-> "Recover", status |-> "Verified", tries |-> 0,
     authenticatorId |-> AdHocAuthenticator.id]

\* The org, accounts and vaults of VaultInit, the org holding one invite, and
\* the Auth record of an account that has verified a recovery request and is
\* logged in with one session.
RecoverInit ==
    /\ \E others \in {[m \in {} |-> "Member"]} \cup
                     [AccountIds \ {Creator} -> OrgRoles \ {"Owner"}],
          mine \in {"none", "write"}, theirs \in {"none", "read", "write"},
          recipient \in {"a2", NoRecipient} :
          LET org == StoredOrg(Creator, others) @@
                     [vaults |-> {"v1"},
                      assigned |-> Assignment(Creator, mine) \cup
                                   UNION {Assignment(m, theirs) : m \in DOMAIN others},
                      inviteEmails |-> [i \in InviteIds |-> recipient]]
              invited == [org EXCEPT !.invites = InviteIds]
          IN /\ DOMAIN others = {} => theirs = "none"
             /\ orgs = [o \in {TheOrg} |-> invited]
             /\ accounts = [a \in AccountIds |->
                               [id |-> a, revision |-> InitRevision, name |-> "n1",
                                orgs |-> IF a = Creator \/ a \in DOMAIN others
                                         THEN <<OrgRef(TheOrg, invited)>> ELSE <<>>,
                                mainVault |-> [id |-> MainVault(a), revision |-> InitRevision]]]
             /\ vaults = [v \in {"v1"} \cup {MainVault(a) : a \in AccountIds} |->
                             IF v = "v1" THEN StoredVault(v, Creator, OrgRef(TheOrg, invited))
                             ELSE StoredVault(v, CHOOSE a \in AccountIds : MainVault(a) = v,
                                              NoOrgRef)]
    /\ nextRev = InitRevision + 1
    /\ auth = [NewAuth EXCEPT !.account = TRUE,
                              !.trustedDevices = {"d1"},
                              !.authRequests = <<VerifiedRecoverRequest>>,
                              !.sessions = <<SessionInfo(FirstSession)>>]
    /\ sessions = [s \in {FirstSession.id} |-> FirstSession]
    /\ nextId = 1
    /\ nextSrp = 0
    /\ redeemed = {}
    /\ authCall = NoCall
    /\ NoRequests

\* A read has returned: nothing is stored, the call is noted.
ReadCall(op, a, target, out) ==
    /\ orgCall' = [op |-> op, account |-> a, org |-> target, res |-> out.res]
    /\ UNCHANGED <<pipeVars, authVars, sessVars, vaults>>

\* recoverAccount for the account a of the Auth record runs to its end.
RecoverMember ==
    \E a \in AccountIds, device \in Devices \cup {NoDevice}, token \in Tokens :
        LET out == recoverAccountOf(a, auth, device, token, VaultState, sessions) IN
        /\ auth' = out.auth
        /\ sessions' = out.sessions
        /\ accounts' = out.st.accounts
        /\ orgs' = out.st.orgs
        /\ vaults' = out.st.vaults
        /\ redeemed' = IF out.res = "ok" THEN redeemed \cup {token} ELSE redeemed
        /\ orgCall' = [op |-> "recoverAccount", account |-> a, org |-> "", res |-> out.res]
        /\ UNCHANGED <<nextRev, requestQueue, resolved, pc, req, ctx, promises, locks, res,
                       earlier, storedAtCall, lastWrites, nextId, authCall, nextSrp,
                       now, authReq, ctxSession, age>>

GetOrg ==
    \E a \in AccountIds, id \in {TheOrg, UnknownOrg} :
        ReadCall("getOrg", a, id, getOrg(accounts[a], id, VaultState))

GetVault ==
    \E a \in AccountIds, id \in VaultIds \cup {PrivateVault, UnknownVault} :
        ReadCall("getVault", a, id, getVault(accounts[a], id, VaultState))

GetInvite ==
    \E a \in AccountIds, o \in {TheOrg, UnknownOrg}, id \in InviteIds \cup {"i0"} :
        ReadCall("getInvite", a, id, getInvite(accounts[a], o, id, VaultState))

NextRecover == RecoverMember \/ GetOrg \/ GetVault \/ GetInvite

SpecRecover == RecoverInit /\ [][NextRecover]_vars

\* ------------------------------------------------------- account deletion
\*
\* The requests of one account, createOrg, deleteAccount and updateAccount,
\* going through Server.handle concurrently: each loads its context in
\* authenticate, waits in the queue for the requests registered before it and
\* runs its handler on the context it loaded.

\* The session of the account.
TheSession == "s1"

\* provisioning.account: the status and the orgs quota (-1: no limit).
OrgQuotas ==
    {[status |-> "Active", orgs |-> -1],
     [status |-> "Active", orgs |-> 1],
     [status |-> "Frozen", orgs |-> -1]}

\* storage.save(account): the record is written whether or not storage holds one.
SaveAccount(acs, account) ==
    [a \in DOMAIN acs \cup {account.id} |-> IF a = account.id THEN account ELSE acs[a]]

\* The id uuid() gives a new org: one that storage does not hold.
FreshOrg(st) ==
    IF "o1" \notin DOMAIN st.orgs THEN "o1"
    ELSE IF "o2" \notin DOMAIN st.orgs THEN "o2"
    ELSE UnknownOrg

\* The Org object createOrg saves: what the client submitted, a name and no
\* member, with the id, revision and owner the server sets.
CreatedOrg(name, owner, revision) ==
    [revision |-> revision, members |-> [m \in {} |-> "n1"], owner |-> owner,
     name |-> name, roles |-> [m \in {} |-> "Member"]]

\* quota.orgs !== -1 && ownedOrgs.length >= quota.orgs
OwnedQuotaReached(quota, owned) == quota # -1 /\ owned >= quota

\* Controller.createOrg. The orgs of the account are the ones its context
\* lists; the account object of the context is saved with the new entry.
createOrg(r, provisioning, st) ==
    LET account == ctx[r]
        listed == {account.orgs[i] : i \in 1..Len(account.orgs)}
        ownedOrgs == {o \in listed \cap DOMAIN st.orgs : st.orgs[o].owner = account.id}
        id == FreshOrg(st)
        org == CreatedOrg(req[r].name, account.id, st.nextRev)
        updated == [account EXCEPT !.orgs = Append(@, id)]
        saved == Store(SaveAccount(st.accounts, updated),
                       [o \in DOMAIN st.orgs \cup {id} |-> IF o = id THEN org ELSE st.orgs[o]],
                       st.nextRev + 1,
                       st.writes \cup {[id |-> id, site |-> "createOrg"],
                                       [id |-> account.id, site |-> "createOrg"]})
    IN IF account.id \notin AccountIds
       THEN Outcome("INVALID_SESSION", account, st)
       ELSE IF req[r].name = ""
       THEN Outcome("BAD_REQUEST", account, st)
       ELSE IF ~(listed \subseteq DOMAIN st.orgs)
       THEN Outcome("NOT_FOUND", account, st)
       ELSE IF provisioning.status # "Active"
       THEN Outcome("PROVISIONING_NOT_ALLOWED", account, st)
       ELSE IF OwnedQuotaReached(provisioning.orgs, Cardinality(ownedOrgs))
       THEN Outcome("PROVISIONING_QUOTA_EXCEEDED", account, st)
       ELSE Outcome("ok", updated, saved)

\* org.removeMember(account)
RemoveMember(org, a) ==
    [org EXCEPT !.members = [m \in DOMAIN @ \ {a} |-> @[m]],
                !.roles = [m \in DOMAIN @ \ {a} |-> @[m]]]

\* Controller.deleteAccount. The orgs tested for ownership are the ones the
\* account object of the context lists. org.isOwner(account) is read as
\* updateOrg spells ownership out (IsOwner): the owner field or the Owner role.
deleteAccount(r, st) ==
    LET account == ctx[r]
        listed == {account.orgs[i] : i \in 1..Len(account.orgs)}
        left == [o \in DOMAIN st.orgs |->
                    IF o \in listed THEN RemoveMember(st.orgs[o], account.id) ELSE st.orgs[o]]
        deleted == Store([a \in DOMAIN st.accounts \ {account.id} |-> st.accounts[a]],
                         left, st.nextRev,
                         st.writes \cup {[id |-> o, site |-> "deleteAccount"] : o \in listed})
    IN IF account.id \notin AccountIds
       THEN Outcome("INVALID_SESSION", account, st)
       ELSE IF ~(listed \subseteq DOMAIN st.orgs)
       THEN Outcome("NOT_FOUND", account, st)
       ELSE IF \E o \in listed : IsOwner(st.orgs[o], account)
       THEN Outcome("BAD_REQUEST", account, st)
       ELSE Outcome("ok", account, deleted)

\* The requests the account sends.
AccountRequests ==
    {[auth |-> Creator, method |-> "createOrg", revision |-> InitRevision, name |-> n] :
        n \in {"n1", ""}}
    \cup {[auth |-> Creator, method |-> "deleteAccount", revision |-> InitRevision, name |-> "n1"]}
    \cup {[auth |-> Creator, method |-> "updateAccount", revision |-> rev, name |-> "n2"] :
             rev \in {accounts[a].revision : a \in DOMAIN accounts \cap {Creator}}}

\* The account with its session and main vault, owning no org or one org, and
\* a second account that sends nothing.
DeleteInit ==
    /\ \E owned \in SUBSET {TheOrg} :
          /\ accounts = [a \in AccountIds |->
                            [id |-> a, revision |-> InitRevision, name |-> "n1",
                             orgs |-> IF a = Creator /\ owned # {} THEN <<TheOrg>> ELSE <<>>]]
          /\ orgs = [o \in owned |->
                        [CreatedOrg("n1", Creator, InitRevision) EXCEPT
                            !.members = [m \in {Creator} |-> "n1"],
                            !.roles = [m \in {Creator} |-> "Owner"]]]
    /\ nextRev = InitRevision + 1
    /\ vaults = [v \in {PrivateVault} |-> StoredVault(v, Creator, NoOrgRef)]
    /\ auth = NewAuth
    /\ nextId = 0
    /\ nextSrp = 0
    /\ redeemed = {}
    /\ authCall = NoCall
    /\ orgCall = NoOrgCall
    /\ sessions = [s \in {TheSession} |-> StoredSession(s, Epoch, Epoch)]
    /\ requestQueue = [i \in Ids |-> 0]
    /\ resolved = [r \in Reqs |-> FALSE]
    /\ pc = [r \in Reqs |-> "new"]
    /\ req = [r \in Reqs |-> NoRequest]
    /\ ctx = [r \in Reqs |-> Anonymous]
    /\ promises = [r \in Reqs |-> {}]
    /\ locks = [r \in Reqs |-> {}]
    /\ res = [r \in Reqs |-> ""]
    /\ earlier = [r \in Reqs |-> {}]
    /\ storedAtCall = [r \in Reqs |-> -1]
    /\ lastWrites = {}
    /\ now = Epoch
    /\ authReq = [r \in Reqs |-> NoAuthHeader]
    /\ ctxSession = [r \in Reqs |-> NoSession]
    /\ age = [r \in Reqs |-> 0]

\* The number of createOrg requests whose handler has not run yet (uuid() has
\* an id for each of them).
PendingOrgs ==
    Cardinality({q \in Reqs : req[q].method = "createOrg" /\ pc[q] \notin {"new", "finally", "returned"}})

\* Server.handle is called with a request of the account and authenticate
\* loads the context: INVALID_SESSION when the session is gone, NOT_FOUND when
\* the session is stored and the account is not.
AccountLoad(r) ==
    /\ pc[r] = "new"
    /\ \A q \in Reqs : q < r => pc[q] # "new"
    /\ \E request \in AccountRequests :
          /\ request.method = "createOrg" => Cardinality(DOMAIN orgs) + PendingOrgs < Cardinality(OrgIds)
          /\ req' = [req EXCEPT ![r] = request]
          /\ IF TheSession \notin DOMAIN sessions
             THEN /\ pc' = [pc EXCEPT ![r] = "returned"]
                  /\ res' = [res EXCEPT ![r] = "INVALID_SESSION"]
                  /\ UNCHANGED ctx
             ELSE IF request.auth \notin DOMAIN accounts
             THEN /\ pc' = [pc EXCEPT ![r] = "returned"]
                  /\ res' = [res EXCEPT ![r] = "NOT_FOUND"]
                  /\ UNCHANGED ctx
             ELSE /\ ctx' = [ctx EXCEPT ![r] = accounts[request.auth]]
                  /\ pc' = [pc EXCEPT ![r] = "authLoaded"]
                  /\ UNCHANGED res
    /\ lastWrites' = {}
    /\ UNCHANGED <<accounts, orgs, nextRev, requestQueue, resolved, promises,
                   locks, earlier, storedAtCall, authVars, sessVars, orgVars>>

\* The end of Controller.authenticate: the account object of the context is
\* saved.
AccountAuthSave(r) ==
    /\ pc[r] = "authLoaded"
    /\ accounts' = SaveAccount(accounts, ctx[r])
    /\ lastWrites' = {[req |-> r, id |-> ctx[r].id, site |-> "authenticate"]}
    /\ pc' = [pc EXCEPT ![r] = "authenticated"]
    /\ UNCHANGED <<orgs, nextRev, requestQueue, resolved, req, ctx, promises,
                   locks, res, earlier, storedAtCall, authVars, sessVars, orgVars>>

\* The id of the Vault object deleteAccount hands to storage.delete:
\* `{ id: account.mainVault }`, the reference object {id, name, revision}
\* itself and not its id. Storage is keyed by (kind, id); the key this object
\* makes is written as JavaScript prints it.
MainVaultKey == "[object Object]"

\* storage.delete of the vault with the given key.
DeleteVaultRecord(stored, key) == [v \in DOMAIN stored \ {key} |-> stored[v]]

\* Controller.process runs the handler of the request to its end. A successful
\* deleteAccount also calls storage.delete for the main vault, with the key
\* MainVaultKey, and deletes the sessions of the account; updateAccount saves
\* the account object of its context.
handleAccountRequest(r, provisioning, st) ==
    CASE req[r].method = "createOrg" -> createOrg(r, provisioning, st)
      [] req[r].method = "deleteAccount" -> deleteAccount(r, st)
      [] OTHER ->
           LET out == updateAccount(r, [st EXCEPT !.accounts = SaveAccount(@, ctx[r])])
           IN IF out.res = "OUTDATED_REVISION" THEN Outcome(out.res, out.ctx, st) ELSE out

ProcessUnder(r, provisioning) ==
    /\ pc[r] = "inProcess"
    /\ LET out == handleAccountRequest(r, provisioning, Store(accounts, orgs, nextRev, {}))
           gone == req[r].method = "deleteAccount" /\ out.res = "ok"
       IN /\ accounts' = out.st.accounts
          /\ orgs' = out.st.orgs
          /\ nextRev' = out.st.nextRev
          /\ ctx' = [ctx EXCEPT ![r] = out.ctx]
          /\ res' = [res EXCEPT ![r] = out.res]
          /\ lastWrites' = {[req |-> r, id |-> w.id, site |-> w.site] : w \in out.st.writes}
          /\ vaults' = IF gone THEN DeleteVaultRecord(vaults, MainVaultKey) ELSE vaults
          /\ sessions' = IF gone THEN NoSessions ELSE sessions
          /\ orgCall' = [op |-> req[r].method, account |-> ctx[r].id, org |-> "",
                         res |-> out.res]
    /\ storedAtCall' = [storedAtCall EXCEPT
                           ![r] = IF ctx[r].id \in DOMAIN accounts
                                  THEN accounts[ctx[r].id].revision ELSE -1]
    /\ pc' = [pc EXCEPT ![r] = "finally"]
    /\ UNCHANGED <<requestQueue, resolved, req, promises, locks, earlier, authVars,
                   now, authReq, ctxSession, age>>

\* The handler runs under any provisioning entry of the account (only createOrg
\* reads it).
ProcessAccount(r) ==
    \E provisioning \in OrgQuotas :
        /\ req[r].method # "createOrg" => provisioning = [status |-> "Active", orgs |-> -1]
        /\ ProcessUnder(r, provisioning)

NextDelete ==
    \E r \in Reqs :
        \/ AccountLoad(r)
        \/ AccountAuthSave(r)
        \/ AddToQueue(r)
        \/ Enter(r)
        \/ ProcessAccount(r)
        \/ Done(r)

SpecDelete == DeleteInit /\ [][NextDelete]_vars

\* The quota of an account that may own one org.
OneOrg == [status |-> "Active", orgs |-> 1]

\* The same requests of an account whose provisioning entry is OneOrg throughout.
NextQuota ==
    \E r \in Reqs :
        \/ AccountLoad(r)
        \/ AccountAuthSave(r)
        \/ AddToQueue(r)
        \/ Enter(r)
        \/ ProcessUnder(r, OneOrg)
        \/ Done(r)

SpecQuota == DeleteInit /\ [][NextQuota]_vars

\* --------------------------------------------------------------- sign-up
\*
\* createAccount requests for one email, all presenting the token of the same
\* auth request. The requests carry no session, so _addToQueue returns at once
\* (`if (!context.account) return () => {}`) and the handlers interleave at
\* their awaits: the load and the save of _useAuthToken, the load of the Auth
\* record in createAccount, and its saves.

\* The auth request started with purpose Signup, before and after it was completed.
SignupRequest(status) ==
    [id |-> 1, token |-> 1, type |-> AdHocAuthenticator.type,
     purpose |-> "Signup", status |-> status, tries |-> 0,
     authenticatorId |-> AdHocAuthenticator.id]

\* account.id = await uuid(): an id no stored account has.
FreshAccount(acs) == IF "a1" \notin DOMAIN acs THEN "a1" ELSE "a2"

\* An email without account whose Signup request is verified, or still pending.
SignupInit ==
    /\ \E status \in {"Verified", "Pending"} :
          auth = [NewAuth EXCEPT !.authRequests = <<SignupRequest(status)>>]
    /\ accounts = [a \in {} |-> Anonymous]
    /\ orgs = [o \in {} |-> 0]
    /\ vaults = NoVaults
    /\ sessions = NoSessions
    /\ nextRev = InitRevision + 1
    /\ nextId = 1
    /\ nextSrp = 0
    /\ redeemed = {}
    /\ authCall = NoCall
    /\ NoRequests

\* The variables a step of createAccount leaves alone.
SignupFrame ==
    UNCHANGED <<orgs, requestQueue, resolved, req, ctx, promises, locks, earlier,
                storedAtCall, lastWrites, nextId, nextSrp, redeemed, authCall, sessions,
                now, authReq, age, orgCall>>

\* _useAuthToken: `const auth = await this._getAuth(email)`
TokenLoad(r) ==
    /\ pc[r] = "new"
    /\ ctxSession' = [ctxSession EXCEPT ![r].auth = auth]
    /\ pc' = [pc EXCEPT ![r] = "tokenLoaded"]
    /\ UNCHANGED <<accounts, vaults, auth, nextRev, res>>
    /\ SignupFrame

\* _useAuthToken: the request is looked up in the copy loaded, removed from it
\* and the copy is saved; without a matching request the call throws.
TokenSave(r) ==
    /\ pc[r] = "tokenLoaded"
    /\ LET used == useAuthToken(ctxSession[r].auth, SignupRequest("Verified").token, "Signup", "", 0) IN
       IF used.ok
       THEN /\ auth' = used.auth
            /\ pc' = [pc EXCEPT ![r] = "tokenUsed"]
            /\ res' = res
       ELSE /\ auth' = auth
            /\ pc' = [pc EXCEPT ![r] = "done"]
            /\ res' = [res EXCEPT ![r] = "AUTHENTICATION_FAILED"]
    /\ UNCHANGED <<accounts, vaults, nextRev, ctxSession>>
    /\ SignupFrame

\* createAccount: `const auth = await this._getAuth(account.email)`
SignupLoad(r) ==
    /\ pc[r] = "tokenUsed"
    /\ ctxSession' = [ctxSession EXCEPT ![r].auth = auth]
    /\ pc' = [pc EXCEPT ![r] = "authLoaded"]
    /\ UNCHANGED <<accounts, vaults, auth, nextRev, res>>
    /\ SignupFrame

\* createAccount from the test of auth.account to the saves of the account, its
\* private vault and the Auth record.
SignupSave(r) ==
    /\ pc[r] = "authLoaded"
    /\ LET a == ctxSession[r].auth
           id == FreshAccount(accounts)
           account == [id |-> id, revision |-> nextRev, name |-> "n1", orgs |-> <<>>,
                       mainVault |-> [id |-> MainVault(id)]]
       IN IF a.account
          THEN /\ res' = [res EXCEPT ![r] = "ACCOUNT_EXISTS"]
               /\ UNCHANGED <<accounts, vaults, auth, nextRev>>
          ELSE /\ DOMAIN accounts # AccountIds
               /\ accounts' = SaveAccount(accounts, account)
               /\ vaults' = [v \in DOMAIN vaults \cup {MainVault(id)} |->
                                IF v = MainVault(id) THEN StoredVault(v, id, NoOrgRef)
                                ELSE vaults[v]]
               /\ auth' = [a EXCEPT !.account = TRUE, !.trustedDevices = @ \cup {"d1"}]
               /\ nextRev' = nextRev + 1
               /\ res' = [res EXCEPT ![r] = "ok"]
    /\ pc' = [pc EXCEPT ![r] = "done"]
    /\ UNCHANGED ctxSession
    /\ SignupFrame

NextSignup == \E r \in Reqs : TokenLoad(r) \/ TokenSave(r) \/ SignupLoad(r) \/ SignupSave(r)

SpecSignup == SignupInit /\ [][NextSignup]_vars

\* ------------------------------------------------------------ revokeSession
\*
\* Requests of account a1 that call revokeSession, from authenticate to the
\* end of the handler, while the account logs in on another device. The
\* handlers of one account run one at a time (_addToQueue); authenticate runs
\* before the queue, its load and its saves apart.

\* The account a session belongs to (Session.account).
SessionAccount(s) == IF s = "s3" THEN "a2" ELSE "a1"

\* The session with id s as createSession stores it.
SessionOf(s) == StoredSession(s, 0, Epoch) @@ [account |-> SessionAccount(s)]

\* auth.sessions.findIndex((s) => s.id === id), counting from 1: 0 stands for
\* the -1 of a list without such an entry.
FindSessionIndex(list, id) ==
    IF \E i \in 1..Len(list) : list[i].id = id
    THEN CHOOSE i \in 1..Len(list) :
             /\ list[i].id = id
             /\ \A j \in 1..(i - 1) : list[j].id # id
    ELSE 0

\* list.splice(i, 1): a negative start counts from the end of the list, so
\* the -1 of findIndex removes the last entry.
SpliceOne(list, i) ==
    LET at == IF i = 0 THEN Len(list) ELSE i
    IN IF list = <<>> THEN list
       ELSE [k \in 1..(Len(list) - 1) |-> IF k < at THEN list[k] ELSE list[k + 1]]

\* Controller.revokeSession with the account and the Auth object of the context.
revokeSession(account, a, id, stored) ==
    IF id \notin DOMAIN stored
    THEN [res |-> "NOT_FOUND", auth |-> a, sessions |-> stored, saved |-> FALSE]
    ELSE IF stored[id].account # account.id
    THEN [res |-> "INSUFFICIENT_PERMISSIONS", auth |-> a, sessions |-> stored, saved |-> FALSE]
    ELSE [res |-> "ok",
          auth |-> [a EXCEPT !.sessions = SpliceOne(@, FindSessionIndex(@, id))],
          sessions |-> [s \in DOMAIN stored \ {id} |-> stored[s]],
          saved |-> TRUE]

\* Account a1 is logged in with session s1; s3 is a session of account a2.
RevokeInit ==
    /\ ServerIdle
    /\ nextId = 0
    /\ nextSrp = 0
    /\ redeemed = {}
    /\ authCall = NoCall
    /\ auth = [NewAuth EXCEPT !.account = TRUE, !.sessions = <<SessionInfo(SessionOf("s1"))>>]
    /\ sessions = [s \in {"s1", "s3"} |-> SessionOf(s)]

\* The variables the steps of a revokeSession request leave alone.
RevokeFrame ==
    UNCHANGED <<accounts, orgs, nextRev, requestQueue, resolved, req, ctx, promises, locks,
                earlier, storedAtCall, lastWrites, nextId, redeemed, authCall, now, age,
                orgVars>>

\* The account logs in on another device: initAuth and createSession, which
\* stores the new session s2 and pushes its info onto the stored Auth record
\* (lines 617-634).
LoginElsewhere ==
    /\ nextSrp = 0
    /\ nextSrp' = 1
    /\ sessions' = [s \in DOMAIN sessions \cup {"s2"} |->
                       IF s = "s2" THEN SessionOf(s) ELSE sessions[s]]
    /\ auth' = [auth EXCEPT !.sessions = Append(@, SessionInfo(SessionOf("s2")))]
    /\ UNCHANGED <<pc, res, authReq, ctxSession>>
    /\ RevokeFrame

\* authenticate up to its saves, for a request signed with a session of a1
\* that calls revokeSession: the session and the Auth record are loaded and
\* the session's info is put into the copy of the record.
RevokeLoad(r) ==
    /\ pc[r] = "new"
    /\ \A q \in Reqs : q < r => pc[q] # "new"
    /\ \E s \in {"s1", "s2"}, id \in SessionIds \cup {UnknownSession} :
          /\ authReq' = [authReq EXCEPT ![r] = [session |-> s, signed |-> TRUE, time |-> now,
                                                method |-> "revokeSession", param |-> id]]
          /\ IF s \notin DOMAIN sessions
             THEN /\ pc' = [pc EXCEPT ![r] = "returned"]
                  /\ res' = [res EXCEPT ![r] = "INVALID_SESSION"]
                  /\ UNCHANGED ctxSession
             ELSE /\ pc' = [pc EXCEPT ![r] = "authLoaded"]
                  /\ ctxSession' = [ctxSession EXCEPT
                                       ![r] = [session |-> sessions[s],
                                               auth |-> UpsertSession(auth, SessionInfo(sessions[s]))]]
                  /\ UNCHANGED res
    /\ UNCHANGED <<auth, sessions, nextSrp>>
    /\ RevokeFrame

\* The saves of authenticate (line 209): the session and the Auth record of
\* the context.
RevokeAuthSave(r) ==
    /\ pc[r] = "authLoaded"
    /\ auth' = ctxSession[r].auth
    /\ sessions' = [s \in DOMAIN sessions \cup {ctxSession[r].session.id} |->
                       IF s = ctxSession[r].session.id THEN ctxSession[r].session
                       ELSE sessions[s]]
    /\ pc' = [pc EXCEPT ![r] = "authenticated"]
    /\ UNCHANGED <<res, authReq, ctxSession, nextSrp>>
    /\ RevokeFrame

\* The handler runs to its end.
RevokeProcess(r) ==
    /\ pc[r] = "authenticated"
    /\ LET out == revokeSession(accounts["a1"], ctxSession[r].auth, authReq[r].param, sessions)
       IN /\ res' = [res EXCEPT ![r] = out.res]
          /\ auth' = IF out.saved THEN out.auth ELSE auth
          /\ sessions' = out.sessions
          /\ ctxSession' = [ctxSession EXCEPT ![r].auth = out.auth]
    /\ pc' = [pc EXCEPT ![r] = "done"]
    /\ UNCHANGED <<authReq, nextSrp>>
    /\ RevokeFrame

NextRevoke ==
    \/ LoginElsewhere
    \/ \E r \in Reqs : RevokeLoad(r) \/ RevokeAuthSave(r) \/ RevokeProcess(r)

SpecRevoke == RevokeInit /\ [][NextRevoke]_vars

\* ------------------------------------------------------- rejected requests
\*
\* The calls that can be rejected, each run to its end on one set of stores:
\* authenticate with its saves, updateAccount on the context authenticate has
\* populated, updateVault, createVault, and the updateOrg calls that are
\* refused (the accepted ones are those of SpecOrg).

\* The request the model follows from authenticate to its handler: the first.
TheCall == CHOOSE r \in Reqs : \A q \in Reqs : r <= q

\* Controller.authenticate as a whole for a request that carries an auth
\* header: the error it throws, or the session with its last-used data
\* updated and the Auth record with the session's info put in, as saved at
\* the end (line 209).
authenticateSaved(header, stored, a, clock) ==
    LET code == authenticate(header, stored, clock)
        session == [stored[header.session] EXCEPT !.lastUsed = clock]
    IN IF code # "ok"
       THEN [res |-> code, sessions |-> stored, auth |-> a]
       ELSE [res |-> "ok",
             sessions |-> [stored EXCEPT ![session.id] = session],
             auth |-> UpsertSession(a, SessionInfo(session))]

\* The invites whose recipient's Auth record updateOrg saves and, for an added
\* invite, to whom it sends the invite message: the invites an owner adds or
\* removes, in a call that passes every check.
InviteEffects(account, request, provisioning, st) ==
    IF request.id \notin DOMAIN st.orgs THEN {}
    ELSE LET org == st.orgs[request.id] IN
         IF updateOrg(account, request, provisioning, st).res = "ok" /\ IsOwner(org, account)
         THEN (request.invites \ org.invites) \cup (org.invites \ request.invites)
         ELSE {}

\* The auth headers of the requests: a live session, the expired one or one
\* storage does not hold, signed with its key or not, sent now or longer ago
\* than maxRequestAge.
SignedHeaders ==
    {[session |-> s, signed |-> b, time |-> now - d, method |-> "updateAccount", param |-> ""] :
        s \in {"s1", "s3", UnknownSession}, b \in BOOLEAN, d \in {0, maxRequestAge + 1}}

\* The org of Creator with vault v1 and a second member that can read the
\* vault, the accounts with their private vaults, and the sessions of
\* Creator, of which s3 has expired.
RejectInit ==
    /\ \E role \in {"Member"} :
          LET org == [StoredOrg(Creator, [m \in AccountIds \ {Creator} |-> role])
                         EXCEPT !.minMemberUpdated = 1] @@
                     [vaults |-> {"v1"},
                      assigned |-> Assignment(Creator, "write") \cup
                                   UNION {Assignment(m, "read") : m \in AccountIds \ {Creator}}]
          IN /\ orgs = [o \in {TheOrg} |-> org]
             /\ accounts = [a \in AccountIds |->
                               [id |-> a, revision |-> InitRevision, name |-> "n1",
                                orgs |-> <<OrgRef(TheOrg, org)>>,
                                mainVault |-> [id |-> MainVault(a), revision |-> InitRevision]]]
             /\ vaults = [v \in {"v1"} \cup {MainVault(a) : a \in AccountIds} |->
                             IF v = "v1" THEN StoredVault(v, Creator, OrgRef(TheOrg, org))
                             ELSE StoredVault(v, CHOOSE a \in AccountIds : MainVault(a) = v,
                                              NoOrgRef)]
    /\ nextRev = InitRevision + 1
    /\ auth = [NewAuth EXCEPT
                  !.account = TRUE,
                  !.sessions = [i \in 1..3 |-> [id |-> <<"s1", "s2", "s3">>[i], lastUsed |-> 0]]]
    /\ sessions = [s \in SessionIds |->
                      StoredSession(s, IF s = "s3" THEN Epoch - 1 ELSE 0, 0)]
    /\ nextId = 0
    /\ nextSrp = 0
    /\ redeemed = {}
    /\ authCall = NoCall
    /\ NoRequests

\* Server.handle is called with a signed updateAccount request of Creator and
\* authenticate runs to its end: it throws, or saves and leaves the stored
\* account in the context.
AuthenticateCall ==
    \E header \in SignedHeaders, current \in BOOLEAN :
        LET out == authenticateSaved(header, sessions, auth, now) IN
        /\ sessions' = out.sessions
        /\ auth' = out.auth
        /\ IF out.res = "ok"
           THEN /\ ctx' = [ctx EXCEPT ![TheCall] = accounts[Creator]]
                /\ req' = [req EXCEPT ![TheCall] =
                              [auth |-> Creator, method |-> "updateAccount",
                               revision |-> IF current THEN accounts[Creator].revision
                                            ELSE StaleRevision,
                               name |-> accounts[Creator].name]]
                /\ pc' = [pc EXCEPT ![TheCall] = "authenticated"]
           ELSE /\ current
                /\ pc' = [pc EXCEPT ![TheCall] = "returned"]
                /\ UNCHANGED <<ctx, req>>
        /\ res' = [res EXCEPT ![TheCall] = out.res]
        /\ orgCall' = [op |-> "authenticate", account |-> Creator, org |-> "",
                       res |-> out.res]
        /\ UNCHANGED <<accounts, orgs, vaults, nextRev, requestQueue, resolved, promises,
                       locks, earlier, storedAtCall, lastWrites, nextId, redeemed, authCall,
                       nextSrp, now, authReq, ctxSession, age>>

\* Controller.process runs updateAccount for the authenticated request.
UpdateAccountCall ==
    /\ pc[TheCall] = "authenticated"
    /\ LET out == updateAccount(TheCall, Store(accounts, orgs, nextRev, {})) IN
       /\ out.res = "ok" => nextRev < InitRevision + 1 + 2 * MaxVaultUpdates
       /\ accounts' = out.st.accounts
       /\ orgs' = out.st.orgs
       /\ nextRev' = out.st.nextRev
       /\ ctx' = [ctx EXCEPT ![TheCall] = out.ctx]
       /\ res' = [res EXCEPT ![TheCall] = out.res]
       /\ orgCall' = [op |-> "updateAccount", account |-> ctx[TheCall].id, org |-> "",
                      res |-> out.res]
    /\ pc' = [pc EXCEPT ![TheCall] = "returned"]
    /\ UNCHANGED <<vaults, requestQueue, resolved, req, promises, locks, earlier,
                   storedAtCall, lastWrites, authVars, sessVars>>

\* The checks of updateOrg the request cannot pass: no or a frozen
\* provisioning entry, an outdated revision, a caller that is neither owner
\* nor admin of the org, a lowered watermark.
MustRefuse(a, request, provisioning) ==
    \/ provisioning.status \in {"none", "Frozen"}
    \/ request.revision # orgs[request.id].revision
    \/ orgs[request.id].owner # a /\ orgs[request.id].roles[a] \notin {"Owner", "Admin"}
    \/ request.minMemberUpdated < orgs[request.id].minMemberUpdated

\* An updateOrg call that cannot pass the checks of updateOrg runs to its end.
RefusedUpdateOrg ==
    \E a \in AccountIds, current \in BOOLEAN, invites \in SUBSET InviteIds,
       minMemberUpdated \in 0..1, provisioning \in OrgProvisionings :
        LET request == [id |-> TheOrg,
                        revision |-> IF current THEN orgs[TheOrg].revision ELSE StaleRevision,
                        name |-> "n2", members |-> orgs[TheOrg].roles,
                        groups |-> orgs[TheOrg].groups,
                        invites |-> invites, minMemberUpdated |-> minMemberUpdated]
            out == updateOrg(accounts[a], request, provisioning,
                             Store(accounts, orgs, nextRev, {}))
        IN /\ MustRefuse(a, request, provisioning)
           /\ accounts' = out.st.accounts
           /\ orgs' = out.st.orgs
           /\ nextRev' = out.st.nextRev
           /\ orgCall' = [op |-> "updateOrg", account |-> a, org |-> TheOrg, res |-> out.res]
           /\ UNCHANGED <<requestQueue, resolved, pc, req, ctx, promises, locks, res,
                          earlier, storedAtCall, lastWrites, authVars, sessVars, vaults>>

NextReject ==
    /\ \/ AuthenticateCall
       \/ UpdateAccountCall
       \/ UpdateVault
       \/ CreateVault
       \/ RefusedUpdateOrg
    /\ nextRev' <= InitRevision + 1 + MaxVaultUpdates

SpecReject == RejectInit /\ [][NextReject]_vars

\* ================================================================== claims

\* The lock scope of a request: the id of the account of its context and the id
\* of every org in that account's orgs list.
LockScope(r) ==
    IF ctx[r].id \in AccountIds
    THEN {ctx[r].id} \cup {ctx[r].orgs[i] : i \in 1..Len(ctx[r].orgs)}
    ELSE {}

\* C1: two authenticated requests whose lock scopes share an id are never both
\* inside Controller.process (between the return of _addToQueue and done()).
C1_MutualExclusion ==
    \A r1, r2 \in Reqs :
        (r1 # r2 /\ InProcess(r1) /\ InProcess(r2)) => LockScope(r1) \cap LockScope(r2) = {}

\* C1 witness: a request is inside process while another one, whose scope
\* shares an id with it, waits on its promise.
C1_Witness ==
    \E r1, r2 \in Reqs :
        /\ InProcess(r1) /\ pc[r2] = "queued" /\ r1 \in promises[r2]
        /\ LockScope(r1) \cap LockScope(r2) # {}

\* C2 (as claimed): of two updateAccount requests for one account that submit
\* the same revision, the one stored when the first of them ran, at most one
\* succeeds.
C2_NoLostAccountUpdate ==
    \A r1, r2 \in Reqs :
        (/\ r1 # r2
         /\ pc[r1] = "returned" /\ pc[r2] = "returned"
         /\ req[r1].method = "updateAccount" /\ req[r2].method = "updateAccount"
         /\ req[r1].auth = req[r2].auth
         /\ req[r1].revision = req[r2].revision
         /\ storedAtCall[r1] = req[r1].revision)
        => ~(res[r1] = "ok" /\ res[r2] = "ok")

\* C3 (as claimed): every save of an Account or Org record is made by a request
\* that is inside process and registered in the queue for that record's id.
C3_WritesUnderLock ==
    \A w \in lastWrites : InProcess(w.req) /\ w.id \in locks[w.req]

\* Controller.process threw for a request that had registered in the queue.
Threw(r) == pc[r] = "returned" /\ locks[r] # {} /\ res[r] \notin {"", "ok"}

\* C4: a request whose process call threw has resolved the promises it
\* registered and answers with an error; a waiting request all of whose
\* awaited promises belong to requests that have returned can proceed.
C4_ErrorReleasesLocks ==
    /\ \A r \in Reqs : Threw(r) => resolved[r] /\ ~InProcess(r)
    /\ \A q \in Reqs :
          (pc[q] = "queued" /\ \A p \in promises[q] : pc[p] = "returned") => QueueReady(q)

\* C4 witness: a request waited on the promise of a request whose process call
\* threw, and has entered process.
C4_Witness ==
    \E r, q \in Reqs : Threw(r) /\ r \in promises[q] /\ InProcess(q)

C6_FifoPerId ==
    \A r \in Reqs :
        pc[r] \in {"inProcess", "finally", "returned"} => \A q \in earlier[r] : resolved[q]

\* C6 witness: a request with two earlier registrants for its ids is inside
\* process while a third request has not yet registered.
C6_Witness ==
    \E r \in Reqs : InProcess(r) /\ Cardinality(earlier[r]) = 2

\* C7 (as claimed, for updateAccount): a call whose submitted revision differs
\* from the stored revision of the account is rejected with OUTDATED_REVISION.
C7_StaleRevisionRejected ==
    \A r \in Reqs :
        (/\ pc[r] \in {"finally", "returned"}
         /\ req[r].method = "updateAccount"
         /\ ctx[r].id \in AccountIds
         /\ req[r].revision # storedAtCall[r])
        => res[r] = "OUTDATED_REVISION"


\* The request with the given id in the persisted Auth record, NoAuthRequest
\* when the record holds none.
Persisted(id) ==
    LET HasId(r) == r.id = id
    IN FindRequest(SelectSeq(auth.authRequests, HasId))

\* C8: verification tokens are single-use: once initAuth, createAccount,
\* recoverAccount, getLegacyData or getKeyStoreEntry has returned successfully
\* after redeeming a token through _useAuthToken, the persisted Auth record
\* holds no request with that token, so the token cannot be redeemed again.
C8_TokensSingleUse ==
    \A t \in redeemed :
        \A i \in 1..Len(auth.authRequests) : auth.authRequests[i].token # t

\* C9: when completeAuthRequest has succeeded for a request of purpose
\* TestAuthenticator, the persisted Auth record does not contain the request.
C9_TestRequestConsumed ==
    (/\ authCall.op = "completeAuthRequest"
     /\ authCall.res = "ok"
     /\ authCall.before.purpose = "TestAuthenticator")
    => Persisted(authCall.id) = NoAuthRequest

\* C10: a completeAuthRequest call in which the provider's verification fails
\* leaves the persisted tries counter of the request strictly greater than it
\* was, leaves the status as it was (a Pending request stays Pending) and
\* re-raises the provider's error; a Pending request becomes Verified only in
\* a call in which the verification succeeded, and such a call does not
\* change tries.
C10_TriesAndStatus ==
    (authCall.op = "completeAuthRequest" /\ authCall.before # NoAuthRequest)
    => LET before == authCall.before
           after == Persisted(authCall.id)
       IN /\ authCall.verify = "failed"
                => /\ after.tries > before.tries
                   /\ after.status = before.status
                   /\ before.status = "Pending" => after.status = "Pending"
                   /\ authCall.res = "PROVIDER_ERROR"
          /\ (before.status = "Pending" /\ after.status = "Verified")
                => authCall.verify = "passed"
          /\ authCall.verify = "passed"
                => after = NoAuthRequest \/ after.tries = before.tries

\* C10 witness: the verification of a Pending request succeeds in a call that
\* follows a failed one, and the request is stored Verified with its tries.
C10_Witness ==
    /\ authCall.op = "completeAuthRequest"
    /\ authCall.verify = "passed"
    /\ authCall.before.status = "Pending"
    /\ authCall.before.tries >= 1
    /\ Persisted(authCall.id).status = "Verified"
    /\ Persisted(authCall.id).tries = authCall.before.tries


\* C11 (as claimed): once completeAuthRequest has succeeded for a request id,
\* the next completeAuthRequest with that id fails NOT_FOUND or
\* AUTHENTICATION_FAILED and does not verify the request again.
C11_CompletedAtMostOnce ==
    [][(/\ authCall.op = "completeAuthRequest"
        /\ authCall.res = "ok"
        /\ authCall'.op = "completeAuthRequest"
        /\ authCall'.id = authCall.id)
       => (/\ authCall'.res \in {"NOT_FOUND", "AUTHENTICATION_FAILED"}
           /\ authCall'.verify # "passed")]_vars


\* Controller.authenticate has completed for a call that carried a session.
Authenticated(r) == ctxSession[r].session.id # "" /\ pc[r] \notin {"new", "authLoaded"}

\* The ids of the authenticators of an Auth record.
AuthenticatorIds(a) == {a.authenticators[i].id : i \in 1..Len(a.authenticators)}

\* C12 (as claimed): deleteAuthenticator fails and leaves the persisted Auth
\* record unchanged when the record holds one authenticator; when it holds two
\* and the id is one of them it succeeds and leaves exactly the other one;
\* and the record never ends up without an authenticator.
C12_LastAuthenticatorKept ==
    [][\A r \in Calls :
          (pc[r] = "inProcess" /\ pc'[r] = "finally" /\ authReq[r].session # "")
          => LET ids == AuthenticatorIds(auth)
                 id == authReq[r].param
             IN /\ Cardinality(ids) = 1 => (res'[r] # "ok" /\ auth' = auth)
                /\ (Cardinality(ids) = 2 /\ id \in ids)
                      => (res'[r] = "ok" /\ AuthenticatorIds(auth') = ids \ {id})
                /\ AuthenticatorIds(auth') # {}]_vars

\* A call carried the id of a stored session and a signature that does not
\* verify, and authenticate has run for it.
BadSignature(r) ==
    pc[r] # "new" /\ authReq[r].session \in SessionIds /\ ~authReq[r].signed

\* C13 (as claimed): a request with the id of a stored session, expired or
\* not, and a signature that does not verify is rejected with INVALID_REQUEST
\* and Controller.process is not run for it.
C13_BadSignatureInvalidRequest ==
    \A r \in Calls :
        BadSignature(r) => (pc[r] = "returned" /\ res[r] = "INVALID_REQUEST")

\* C13 (amended): such a request is rejected without Controller.process being
\* run, with INVALID_REQUEST when the session has not expired and with
\* SESSION_EXPIRED when it has.
C13_BadSignatureRejected ==
    \A r \in Calls :
        BadSignature(r)
        => LET session == sessions[authReq[r].session]
           IN /\ pc[r] = "returned"
              /\ res[r] \in {"INVALID_REQUEST", "SESSION_EXPIRED"}
              /\ ~Expired(session, now) => res[r] = "INVALID_REQUEST"
              /\ res[r] = "SESSION_EXPIRED" => Expired(session, now)

\* C13 witness: one badly signed request on a session that does not expire
\* was rejected INVALID_REQUEST, another on an expired session SESSION_EXPIRED.
C13_Witness ==
    \E r1, r2 \in Calls :
        /\ BadSignature(r1) /\ sessions[authReq[r1].session].expires = 0
        /\ res[r1] = "INVALID_REQUEST"
        /\ BadSignature(r2) /\ res[r2] = "SESSION_EXPIRED"

\* A call carried a valid signature for a stored session that had not
\* expired, so authenticate computed its age.
AgeChecked(r) ==
    /\ pc[r] # "new"
    /\ authReq[r].session \in SessionIds
    /\ authReq[r].signed
    /\ res[r] # "SESSION_EXPIRED"

\* C14 (as claimed): a validly signed request is rejected with
\* MAX_REQUEST_AGE_EXCEEDED exactly when |now - auth.time| > maxRequestAge.
C14_SymmetricWindow ==
    \A r \in Calls :
        AgeChecked(r)
        => (res[r] = "MAX_REQUEST_AGE_EXCEEDED"
               <=> (age[r] > maxRequestAge \/ -age[r] > maxRequestAge))

\* C14 (amended): a validly signed request is rejected with
\* MAX_REQUEST_AGE_EXCEEDED exactly when now - auth.time > maxRequestAge: at
\* exactly maxRequestAge it is accepted, at maxRequestAge + 1 rejected, and a
\* time stamp in the future is accepted.
C14_PastWindow ==
    \A r \in Calls :
        AgeChecked(r)
        => /\ res[r] = "MAX_REQUEST_AGE_EXCEEDED" <=> age[r] > maxRequestAge
           /\ res[r] = "MAX_REQUEST_AGE_EXCEEDED" => pc[r] = "returned"
           /\ age[r] <= maxRequestAge => ctxSession[r].session.id = authReq[r].session

\* C14 witness: a request at exactly maxRequestAge was accepted and one at
\* maxRequestAge + 1 rejected.
C14_Witness ==
    \E r1, r2 \in Calls :
        /\ AgeChecked(r1) /\ age[r1] = maxRequestAge /\ Authenticated(r1)
        /\ AgeChecked(r2) /\ age[r2] = maxRequestAge + 1
        /\ res[r2] = "MAX_REQUEST_AGE_EXCEEDED"

\* C15 (as claimed): once authenticate has succeeded for a call, the persisted
\* Auth.sessions holds exactly one entry with the id of the call's session,
\* and the entry carries the last-used data the call wrote (or newer ones),
\* also when the operation dispatched afterwards has failed.
C15_SessionInfoPersisted ==
    \A r \in Calls :
        Authenticated(r)
        => LET mine == {i \in 1..Len(auth.sessions) :
                           auth.sessions[i].id = ctxSession[r].session.id}
           IN /\ Cardinality(mine) = 1
              /\ \A i \in mine : auth.sessions[i].lastUsed >= ctxSession[r].session.lastUsed


\* The Auth record holds a Verified request of purpose Login with this token.
VerifiedLoginToken(a, token) ==
    /\ token # 0
    /\ \E i \in 1..Len(a.authRequests) :
          /\ a.authRequests[i].token = token
          /\ a.authRequests[i].status = "Verified"
          /\ a.authRequests[i].purpose = "Login"

\* The step is an initAuth from a device the Auth record does not trust.
InitAuthUntrusted ==
    /\ authCall'.op = "initAuth"
    /\ authCall'.device \notin auth.trustedDevices

\* The step stores one new handshake on the Auth record and returns its id.
OneNewHandshake ==
    /\ Cardinality(auth'.srpSessions \ auth.srpSessions) = 1
    /\ auth.srpSessions \subseteq auth'.srpSessions
    /\ authCall'.returned.id \in auth'.srpSessions \ auth.srpSessions

\* C16: initAuth from a device that is not trusted fails
\* AUTHENTICATION_REQUIRED and stores no handshake when no token is given; given
\* the token of a Verified Login request it succeeds, stores one new handshake
\* and returns that handshake's id. (startAuthRequest turns the purpose Login
\* into Signup for an email without an account, so a Verified Login request
\* is always one of an email that has an account.)
C16_InitAuthSucceeds ==
    [][InitAuthUntrusted =>
          /\ authCall'.given = 0 =>
                authCall'.res = "AUTHENTICATION_REQUIRED" /\ auth' = auth
          /\ VerifiedLoginToken(auth, authCall'.given) =>
                authCall'.res = "ok" /\ OneNewHandshake]_vars

\* C16 witness: an initAuth from a device that is not trusted was given a token
\* and succeeded, and the handshake it returned is stored on the Auth record.
C16_Witness ==
    /\ authCall.op = "initAuth"
    /\ authCall.res = "ok"
    /\ authCall.given # 0
    /\ authCall.device \notin auth.trustedDevices
    /\ authCall.returned.id \in auth.srpSessions


\* The step is a createSession call.
CreateSessionStep == authCall'.op = "createSession"

\* C17: a createSession whose proof does not match fails INVALID_CREDENTIALS,
\* stores no session and leaves the handshake on the Auth record; a createSession
\* that succeeds removes exactly the handshake it used, and a createSession that
\* follows it with the same handshake id fails INVALID_CREDENTIALS.
C17_HandshakeUsedOnce ==
    [][CreateSessionStep =>
          /\ (/\ authCall'.account
              /\ authCall'.id \in auth.srpSessions
              /\ ~authCall'.proof) =>
                /\ authCall'.res = "INVALID_CREDENTIALS"
                /\ sessions' = sessions
                /\ auth' = auth
          /\ authCall'.res = "ok" =>
                /\ authCall'.id \in auth.srpSessions
                /\ auth'.srpSessions = auth.srpSessions \ {authCall'.id}
          /\ (/\ authCall.op = "createSession"
              /\ authCall.res = "ok"
              /\ authCall'.id = authCall.id
              /\ authCall'.account) =>
                authCall'.res = "INVALID_CREDENTIALS"]_vars

\* C17 witness: a createSession with a wrong proof has failed and the handshake
\* it named is still on the Auth record.
C17_Witness ==
    /\ authCall.op = "createSession"
    /\ authCall.res = "INVALID_CREDENTIALS"
    /\ ~authCall.proof
    /\ authCall.id \in auth.srpSessions

\* C17 witness of the second part: a createSession has succeeded, its session
\* is stored and its handshake is gone.
C17_WitnessConsumed ==
    /\ authCall.op = "createSession"
    /\ authCall.res = "ok"
    /\ authCall.id \notin auth.srpSessions
    /\ authCall.returned.id \in DOMAIN sessions


\* C18: every createSession that fails, fails INVALID_CREDENTIALS, whichever
\* step failed (unknown account id, unknown handshake id, wrong proof).
C18_FailuresAlike ==
    (authCall.op = "createSession" /\ authCall.res # "ok")
        => authCall.res = "INVALID_CREDENTIALS"


\* C19: after a successful createSession the stored Session carries the
\* negotiated key and the Session returned carries none; what an operation
\* returns never carries a session key.
C19_KeyNeverReturned ==
    /\ authCall.returned.key = ""
    /\ (authCall.op = "createSession" /\ authCall.res = "ok") =>
          /\ authCall.returned.id \in DOMAIN sessions
          /\ sessions[authCall.returned.id].key # ""

\* C19 witness: a createSession has succeeded, the session it returned is
\* stored with its key, and what it returned has none.
C19_Witness ==
    /\ authCall.op = "createSession"
    /\ authCall.res = "ok"
    /\ authCall.returned.id \in DOMAIN sessions
    /\ sessions[authCall.returned.id].key = "K"
    /\ authCall.returned.key = ""


\* The step is an updateOrg call on a stored org by an account that is neither
\* its owner nor one of its members.
UpdateOrgByNonMember ==
    /\ orgCall'.op = "updateOrg"
    /\ orgCall'.org \in DOMAIN orgs
    /\ orgs[orgCall'.org].owner # orgCall'.account
    /\ orgCall'.account \notin DOMAIN orgs[orgCall'.org].members

UpdateOrgRequests ==
    [id : {TheOrg}, revision : {orgs[TheOrg].revision, StaleRevision}, name : Names,
     members : MemberLists, groups : 0..MaxGroups, invites : SUBSET InviteIds,
     minMemberUpdated : 0..1]

\* What updateOrg does in the current state when account a submits the request
\* and the provisioner answers with the given entry.
UpdateOrgOutcome(a, request, provisioning) ==
    updateOrg(accounts[a], request, provisioning, Store(accounts, orgs, nextRev, {}))

\* The role of an account in an org, "none" for an account that is no member.
RoleIn(org, a) == IF a \in DOMAIN org.roles THEN org.roles[a] ELSE "none"

\* The request changes the groups of the org and nothing else.
ChangesOnlyGroups(org, request) ==
    /\ request.groups # org.groups
    /\ request.name = org.name
    /\ request.members = org.roles
    /\ request.invites = org.invites
    /\ request.minMemberUpdated = org.minMemberUpdated

\* The request has the current revision, the org's provisioning is active and
\* its quota admit the request.
Admissible(org, request, provisioning) ==
    /\ request.revision = org.revision
    /\ provisioning.status = "Active"
    /\ provisioning.members = -1 \/ Cardinality(DOMAIN request.members) <= provisioning.members
    /\ provisioning.groups = -1 \/ request.groups <= provisioning.groups

\* C21, as stated: for an account whose role is Member, an updateOrg that
\* changes the name fails INSUFFICIENT_PERMISSIONS, and an updateOrg with the
\* current revision that changes only the groups is accepted.
C21_MemberUpdatesGroups ==
    \A a \in AccountIds, request \in UpdateOrgRequests, provisioning \in OrgProvisionings :
        LET org == orgs[TheOrg]
            out == UpdateOrgOutcome(a, request, provisioning)
        IN (/\ org.owner # a
            /\ RoleIn(org, a) = "Member"
            /\ Admissible(org, request, provisioning)) =>
              /\ request.name # org.name => out.res = "INSUFFICIENT_PERMISSIONS"
              /\ ChangesOnlyGroups(org, request) => out.res = "ok"

\* C21, amended: for an account whose role is Member, no updateOrg is accepted
\* and none changes storage; with the current revision and an active
\* provisioning it fails INSUFFICIENT_PERMISSIONS, whether it changes the name
\* or only the groups. An updateOrg with the current revision that changes only
\* the groups is accepted from an Admin.
C21_MemberRefused ==
    \A a \in AccountIds, request \in UpdateOrgRequests, provisioning \in OrgProvisionings :
        LET org == orgs[TheOrg]
            out == UpdateOrgOutcome(a, request, provisioning)
        IN /\ (org.owner # a /\ RoleIn(org, a) = "Member") =>
                 /\ out.res # "ok"
                 /\ out.st = Store(accounts, orgs, nextRev, {})
                 /\ Admissible(org, request, provisioning) =>
                       out.res = "INSUFFICIENT_PERMISSIONS"
           /\ (/\ org.owner # a
               /\ RoleIn(org, a) = "Admin"
               /\ Admissible(org, request, provisioning)
               /\ ChangesOnlyGroups(org, request)) =>
                 /\ out.res = "ok"
                 /\ out.st.orgs[TheOrg].groups = request.groups

\* C21 witness: an updateOrg of an account whose role is Member was refused
\* INSUFFICIENT_PERMISSIONS.
C21_Witness ==
    /\ orgCall.op = "updateOrg"
    /\ orgCall.res = "INSUFFICIENT_PERMISSIONS"
    /\ orgCall.org = TheOrg
    /\ orgs[TheOrg].owner # orgCall.account
    /\ RoleIn(orgs[TheOrg], orgCall.account) = "Member"


\* What only owners may change: the member ids and their roles, the invites,
\* the name and minMemberUpdated.
OwnerFields(org) ==
    [members |-> DOMAIN org.members, roles |-> org.roles, invites |-> org.invites,
     name |-> org.name, minMemberUpdated |-> org.minMemberUpdated]

\* The request adds or removes a member or an invite, or changes a role.
ChangesMembership(org, request) ==
    \/ DOMAIN request.members # DOMAIN org.members
    \/ request.members # org.roles
    \/ request.invites # org.invites

C28_QuotaAndFrozenDistinct ==
    \A a \in AccountIds, request \in UpdateOrgRequests, provisioning \in OrgProvisionings :
        LET org == orgs[TheOrg]
            out == UpdateOrgOutcome(a, request, provisioning)
            tooManyMembers == /\ provisioning.members >= 0
                              /\ Cardinality(DOMAIN request.members) > provisioning.members
            tooManyGroups == /\ provisioning.groups >= 0
                             /\ request.groups > provisioning.groups
        IN /\ (/\ org.owner = a
               /\ provisioning.status = "Active"
               /\ request.revision = org.revision
               /\ request.minMemberUpdated >= org.minMemberUpdated
               /\ tooManyMembers) =>
                 /\ out.res = "PROVISIONING_QUOTA_EXCEEDED"
                 /\ out.st = Store(accounts, orgs, nextRev, {})
           /\ provisioning.status = "Frozen" =>
                 /\ out.res = "PROVISIONING_NOT_ALLOWED"
                 /\ out.st = Store(accounts, orgs, nextRev, {})
           /\ out.res = "PROVISIONING_QUOTA_EXCEEDED" =>
                 provisioning.status = "Active" /\ (tooManyMembers \/ tooManyGroups)
           /\ out.res = "PROVISIONING_NOT_ALLOWED" => provisioning.status # "Active"

\* C28 witness: an updateOrg of the owner was refused
\* PROVISIONING_QUOTA_EXCEEDED.
C28_Witness ==
    /\ orgCall.op = "updateOrg"
    /\ orgCall.res = "PROVISIONING_QUOTA_EXCEEDED"
    /\ orgCall.org = TheOrg
    /\ orgs[TheOrg].owner = orgCall.account


\* C30, as stated: after a successful recoverAccount the persisted
\* trustedDevices of the Auth record is empty, whatever device sent the request.
C30_TrustedDevicesEmpty ==
    (authCall.op = "recoverAccount" /\ authCall.res = "ok") => auth.trustedDevices = {}

\* C30, amended: a successful recoverAccount leaves in the persisted
\* trustedDevices the device that sent the request and no other: every device
\* trusted before is removed; the list is empty when the request names no
\* device.
C30_TrustedDevicesReset ==
    /\ (authCall.op = "recoverAccount" /\ authCall.res = "ok") =>
          Cardinality(auth.trustedDevices) <= 1
    /\ \A device \in Devices \cup {NoDevice}, token \in Tokens :
          LET out == recoverAccount(auth, device, token)
          IN out.res = "ok" =>
                out.auth.trustedDevices = {device} \ {NoDevice}

\* C30 witness: a recoverAccount sent from another device than the one trusted
\* before has succeeded; the device trusted before is trusted no longer.
C30_Witness ==
    /\ authCall.op = "recoverAccount"
    /\ authCall.res = "ok"
    /\ auth.trustedDevices = {"d2"}


\* ---------------------------------------------------------------- C24

\* The account has the vault assigned in the org, and with write access.
AssignedIn(org, v, a) == \E t \in org.assigned : t.member = a /\ t.vault = v
AssignedWritable(org, v, a) == \E t \in org.assigned : t.member = a /\ t.vault = v /\ ~t.readonly

\* The outcome of an updateVault call in the current state.
UpdateVaultOutcome(a, request, orgProvisioning, accountProvisioning) ==
    updateVault(accounts[a], request, orgProvisioning, accountProvisioning, VaultState)

\* The refusal the permissions of account a on a stored vault call for, with
\* a suspended member getting the refusal `suspended`: "hidden" when a has no read
\* access, "readonly" when it can read and not write, "frozen" when it can
\* write and the provisioning that applies to the vault is Frozen.
Refusal(a, v, orgProvisioning, accountProvisioning, suspended) ==
    LET vault == vaults[v]
        private == vault.org = NoOrgRef
        org == orgs[vault.org.id]
        role == RoleIn(org, a)
        prov == IF ~private /\ orgProvisioning.status # "none"
                THEN orgProvisioning ELSE accountProvisioning
    IN IF private
       THEN IF vault.owner # a THEN "hidden"
            ELSE IF prov.status = "Frozen" THEN "frozen" ELSE "none"
       ELSE IF role = "Suspended" THEN suspended
       ELSE IF role = "none" \/ ~AssignedIn(org, v, a) THEN "hidden"
       ELSE IF ~AssignedWritable(org, v, a) THEN "readonly"
       ELSE IF prov.status = "Frozen" THEN "frozen" ELSE "none"

\* The error code of a refusal.
RefusalCode(refusal) ==
    CASE refusal = "hidden" -> "NOT_FOUND"
      [] refusal = "readonly" -> "INSUFFICIENT_PERMISSIONS"
      [] refusal = "suspended" -> "INSUFFICIENT_PERMISSIONS"
      [] refusal = "frozen" -> "PROVISIONING_NOT_ALLOWED"

\* Every updateVault call on a stored vault that the caller's permissions
\* refuse returns the code of the refusal and leaves the stores as they were.
RefusedUniformly(suspended) ==
    \A a \in AccountIds, request \in UpdateVaultRequests,
       orgProvisioning \in VaultProvisionings, accountProvisioning \in AccountProvisionings :
        (/\ request.id \in DOMAIN vaults
         /\ vaults[request.id].org # NoOrgRef => vaults[request.id].org.id \in DOMAIN orgs) =>
            LET out == UpdateVaultOutcome(a, request, orgProvisioning, accountProvisioning)
                refusal == Refusal(a, request.id, orgProvisioning, accountProvisioning, suspended)
            IN refusal # "none" => out.res = RefusalCode(refusal) /\ out.st = VaultState

\* C24 as stated: updateVault answers NOT_FOUND to every caller without read
\* access to the vault, a suspended member of its org among them,
\* INSUFFICIENT_PERMISSIONS to a caller with read and without write access,
\* and PROVISIONING_NOT_ALLOWED to a caller with write access under a Frozen
\* provisioning status; the vault is unchanged in all three cases.
C24_SuspendedHidden == RefusedUniformly("hidden")

\* C24, amended: as stated, except that a suspended member of the vault's org
\* is answered INSUFFICIENT_PERMISSIONS.
C24_RefusedByPermission == RefusedUniformly("suspended")

\* C24: a suspended member with the vault assigned has been refused with
\* INSUFFICIENT_PERMISSIONS.
C24_Witness ==
    /\ orgCall.op = "updateVault"
    /\ orgCall.res = "INSUFFICIENT_PERMISSIONS"
    /\ orgCall.org = "v1"
    /\ TheOrg \in DOMAIN orgs
    /\ RoleIn(orgs[TheOrg], orgCall.account) = "Suspended"
    /\ AssignedIn(orgs[TheOrg], "v1", orgCall.account)


\* ---------------------------------------------------------------- C25

\* The cached data of org o is fresh: every member whose account exists has
\* exactly one orgs entry for o, with the stored name and revision, and every
\* existing vault the org lists refers to the org with the stored name and
\* revision.
MetaDataFresh(o) ==
    LET org == orgs[o]
        ref == OrgRef(o, org)
    IN /\ \A a \in DOMAIN org.members \cap DOMAIN accounts :
             /\ Len(SelectSeq(accounts[a].orgs, LAMBDA e : e.id = o)) = 1
             /\ \E i \in 1..Len(accounts[a].orgs) : accounts[a].orgs[i] = ref
       /\ \A v \in org.vaults \cap DOMAIN vaults : vaults[v].org = ref

\* C25: once updateVault on an org vault, createVault or deleteVault has
\* returned successfully, the cached name and revision of the org in every
\* member account and in every listed vault are the stored ones.
C25_MetaDataRefreshed ==
    (/\ orgCall.op \in {"updateVault", "createVault", "deleteVault"}
     /\ orgCall.res = "ok"
     /\ orgCall.org # PrivateVault) =>
        \A o \in DOMAIN orgs : MetaDataFresh(o)


\* ---------------------------------------------------------------- C26

\* No stored account lists org o.
Unlisted(acs, o) ==
    \A a \in DOMAIN acs : \A i \in 1..Len(acs[a].orgs) : acs[a].orgs[i].id # o

\* C26: a deleteOrg call that succeeds leaves neither the org, nor a vault the
\* org listed, nor an orgs entry for it in any account; a call by an account
\* that is not an owner of the org fails and leaves the stores as they were.
C26_DeleteOrgCascades ==
    /\ \A a \in AccountIds, o \in DOMAIN orgs :
          LET out == deleteOrg(accounts[a], o, VaultState) IN
          /\ out.res = "ok" =>
                /\ o \notin DOMAIN out.st.orgs
                /\ orgs[o].vaults \cap DOMAIN out.st.vaults = {}
                /\ Unlisted(out.st.accounts, o)
          /\ (orgs[o].owner # a /\ RoleIn(orgs[o], a) # "Owner") =>
                out.res # "ok" /\ out.st = VaultState
    /\ (orgCall.op = "deleteOrg" /\ orgCall.res = "ok") =>
          /\ orgCall.org \notin DOMAIN orgs
          /\ \A v \in DOMAIN vaults : vaults[v].org.id # orgCall.org
          /\ Unlisted(accounts, orgCall.org)

\* C26: the owner has deleted the org after a second vault was created in it.
C26_Witness ==
    /\ orgCall.op = "deleteOrg"
    /\ orgCall.res = "ok"
    /\ orgCall.account = Creator
    /\ nextRev > InitRevision + 1
    /\ DOMAIN vaults \cap VaultIds = {}


\* ---------------------------------------------------------------- C29

\* C29: createVault for a stored org whose provisioning status is not Active
\* is rejected with PROVISIONING_NOT_ALLOWED and writes nothing.
C29_CreateVaultNeedsActive ==
    \A a \in AccountIds, request \in CreateVaultRequests,
       orgProvisioning \in VaultProvisionings :
        (request.org.id \in DOMAIN orgs /\ orgProvisioning.status # "Active") =>
            LET out == createVault(accounts[a], request, orgProvisioning, VaultState)
            IN out.res = "PROVISIONING_NOT_ALLOWED" /\ out.st = VaultState


\* ---------------------------------------------------------------- C27

\* C27: no stored org is owned by an account that storage does not hold.
C27_NoOrphanedOrg == \A o \in DOMAIN orgs : orgs[o].owner \in DOMAIN accounts


\* ---------------------------------------------------------------- C31

\* C31: after a successful recoverAccount no Session record of the account is
\* stored and the persisted Auth.sessions lists no session.
C31_SessionsRevoked ==
    (authCall.op = "recoverAccount" /\ authCall.res = "ok") =>
        /\ DOMAIN sessions = {}
        /\ auth.sessions = <<>>

\* The outcome of recoverAccount for account a in the current state.
RecoverOutcome(a, device, token) ==
    recoverAccountOf(a, auth, device, token, VaultState, sessions)

\* The outcome of a successful recovery of a, seen by a afterwards: every
\* vault of org o refuses a's getVault, and every updateVault of a on it.
VaultsClosed(a, o, st) ==
    \A v \in st.orgs[o].vaults :
        /\ getVault(st.accounts[a], v, st).res # "ok"
        /\ \A request \in UpdateVaultRequests, orgProvisioning \in VaultProvisionings,
              accountProvisioning \in AccountProvisionings :
              request.id = v =>
                  updateVault(st.accounts[a], request, orgProvisioning,
                              accountProvisioning, st).res # "ok"

\* C32: after a successful recoverAccount the account's member entry has
\* role Suspended in every org it belongs to and does not own, and keeps its
\* role in the orgs it owns; the suspended member can neither read (getVault)
\* nor write (updateVault) any vault of that org.
C32_NonOwnedSuspended ==
    \A a \in AccountIds, device \in Devices \cup {NoDevice}, token \in Tokens :
        LET out == RecoverOutcome(a, device, token) IN
        out.res = "ok" =>
            \A o \in DOMAIN orgs :
                a \in DOMAIN orgs[o].roles =>
                    IF orgs[o].roles[a] = "Owner"
                    THEN out.st.orgs[o].roles[a] = "Owner"
                    ELSE /\ out.st.orgs[o].roles[a] = "Suspended"
                         /\ VaultsClosed(a, o, out.st)

\* C32 witness: an account that was not suspended before has recovered, is
\* suspended in the org it does not own, an org vault is assigned to it, and
\* the owner's role is as before.
C32_Witness ==
    /\ orgCall.op = "recoverAccount"
    /\ orgCall.res = "ok"
    /\ orgCall.account = "a2"
    /\ RoleIn(orgs[TheOrg], "a2") = "Suspended"
    /\ RoleIn(orgs[TheOrg], Creator) = "Owner"
    /\ AssignedWritable(orgs[TheOrg], "v1", "a2")
    /\ orgs[TheOrg].vaults # {}

\* Account a has no read right on the stored vault v: a private vault of
\* another account, or an org vault when a is no member of the org, is
\* suspended, or has no assignment to the vault.
NoReadRight(a, v) ==
    LET vault == vaults[v] IN
    IF vault.org = NoOrgRef THEN vault.owner # a
    ELSE LET org == orgs[vault.org.id] IN
         \/ RoleIn(org, a) \in {"none", "Suspended"}
         \/ ~AssignedIn(org, v, a)

\* Every read of a target the caller has no read right on, and every read
\* of a target that is not stored, fails, a suspended member's getVault with
\* the code `suspended` and every other one with NOT_FOUND.
ReadsRefused(suspended) ==
    \A a \in AccountIds :
        /\ \A o \in OrgIds \cup {UnknownOrg} :
              (o \in DOMAIN orgs => orgs[o].owner # a /\ RoleIn(orgs[o], a) = "none")
                  => getOrg(accounts[a], o, VaultState).res = "NOT_FOUND"
        /\ \A v \in VaultIds \cup {PrivateVault, UnknownVault} :
              (v \in DOMAIN vaults => NoReadRight(a, v))
                  => getVault(accounts[a], v, VaultState).res =
                         IF /\ v \in DOMAIN vaults
                            /\ vaults[v].org # NoOrgRef
                            /\ RoleIn(orgs[vaults[v].org.id], a) = "Suspended"
                         THEN suspended ELSE "NOT_FOUND"
        /\ \A o \in OrgIds \cup {UnknownOrg}, i \in InviteIds \cup {"i0"} :
              ((o \in DOMAIN orgs /\ i \in orgs[o].invites)
                  => RoleIn(orgs[o], a) # "Owner" /\ orgs[o].inviteEmails[i] # a)
                  => getInvite(accounts[a], o, i, VaultState).res = "NOT_FOUND"

\* C33 (as stated): getOrg, getVault and getInvite by an account with no
\* read right on the target (non-member, member without assignment, suspended
\* member, neither owner nor invite recipient) fail with NOT_FOUND, as for a
\* target that does not exist.
C33_HiddenNotFound == ReadsRefused("NOT_FOUND")

\* C33 (amended): the same, except that getVault answers a suspended member
\* of the vault's org with INSUFFICIENT_PERMISSIONS.
C33_HiddenUnlessSuspended == ReadsRefused("INSUFFICIENT_PERMISSIONS")

\* C33 witness: a member of the org without an assignment to the org vault
\* has called getVault on it and got NOT_FOUND.
C33_Witness ==
    /\ orgCall.op = "getVault"
    /\ orgCall.res = "NOT_FOUND"
    /\ orgCall.org = "v1"
    /\ RoleIn(orgs[TheOrg], orgCall.account) \in {"Member", "Admin"}
    /\ ~AssignedIn(orgs[TheOrg], "v1", orgCall.account)

\* C34: startAuthRequest with purpose Login from a trusted device stores the
\* request as Verified without calling any operation of the authenticator
\* provider; from any other device, or for any other purpose, the stored
\* request is Pending.
C34_TrustedLoginFastPath ==
    \A device \in Devices, purpose \in Purposes, authenticatorId \in {"", "m1", "ad_hoc"} :
        LET out == startAuthRequest(auth, device, purpose, authenticatorId) IN
        out.res = "ok" =>
            IF purpose = "Login" /\ device \in auth.trustedDevices
            THEN out.before.status = "Verified" /\ out.verify = ""
            ELSE out.before.status = "Pending"

\* C35: a private vault lives as long as its account: after a successful
\* deleteAccount no vault with the id account.mainVault.id remains in storage.
C35_MainVaultDeleted ==
    (orgCall.op = "deleteAccount" /\ orgCall.res = "ok") => PrivateVault \notin DOMAIN vaults

\* C36: the revision of an Account is regenerated on every mutation: whenever
\* a handler stores an Account whose content differs from the one stored
\* before, the stored revision differs too.
C36_RevisionRegenerated ==
    [][(\E r \in Reqs : pc[r] = "inProcess" /\ pc'[r] = "finally") =>
           \A a \in DOMAIN accounts \cap DOMAIN accounts' :
               accounts'[a] # accounts[a] => accounts'[a].revision # accounts[a].revision]_vars

\* C37: an Auth record maps to at most one Account: of the createAccount
\* requests for one email that present the same Verified Signup token at most
\* one succeeds, and storage holds at most one Account and one private vault
\* for the email.
C37_OneAccountPerAuth ==
    /\ Cardinality({r \in Reqs : res[r] = "ok"}) <= 1
    /\ Cardinality(DOMAIN accounts) <= 1
    /\ Cardinality(DOMAIN vaults) <= 1

\* C38: while the only requests of an account with the orgs quota 1 are
\* createOrg requests, the stored orgs it owns never exceed the quota and
\* every stored org is listed in the stored account's orgs.
C38_QuotaKept ==
    (\A r \in Reqs : pc[r] # "new" => req[r].method = "createOrg") =>
        /\ Cardinality({o \in DOMAIN orgs : orgs[o].owner = Creator}) <= OneOrg.orgs
        /\ \A o \in DOMAIN orgs :
              \E i \in 1..Len(accounts[Creator].orgs) : accounts[Creator].orgs[i] = o

\* The entries of an Auth.sessions list other than the one with the given id.
WithoutSession(list, id) ==
    LET Others(e) == e.id # id IN SelectSeq(list, Others)

\* C39: a successful revokeSession(id) removes from the persisted
\* Auth.sessions exactly the entry with that id, if there is one, and deletes
\* only that Session record; a revokeSession for a session of another account
\* fails INSUFFICIENT_PERMISSIONS and changes nothing.
C39_RevokesOnlyThatSession ==
    [][\A r \in Reqs :
          (pc[r] = "authenticated" /\ pc'[r] = "done") =>
              /\ res'[r] = "ok" =>
                    /\ auth'.sessions = WithoutSession(auth.sessions, authReq[r].param)
                    /\ sessions' = [s \in DOMAIN sessions \ {authReq[r].param} |-> sessions[s]]
              /\ (authReq[r].param \in DOMAIN sessions
                      /\ SessionAccount(authReq[r].param) # "a1") =>
                    /\ res'[r] = "INSUFFICIENT_PERMISSIONS"
                    /\ UNCHANGED <<auth, sessions>>]_vars

\* The stores as updateAccount and updateOrg find them.
AccountState == Store(accounts, orgs, nextRev, {})

\* The Org objects submitted for the stored org that keep its member list
\* and its groups.
RefusableOrgRequests ==
    [id : {TheOrg}, revision : {orgs[TheOrg].revision, StaleRevision}, name : Names,
     members : {orgs[TheOrg].roles}, groups : {orgs[TheOrg].groups}, invites : SUBSET InviteIds,
     minMemberUpdated : 0..1]

====
